---- MODULE Spec2Model ----
(***************************************************************************)
(* The content-stream interpreter of pdf_convert (src/src/render.rs,       *)
(* graphics_state.rs, text_state.rs, plotter.rs) as a state machine.       *)
(*                                                                         *)
(* RenderState::render walks the page's operators in order.  One action    *)
(* models one match arm of that loop.  The operator stream is an input:    *)
(* every action draws the operator it handles (and its operands) from a    *)
(* small set, so a behaviour of the model is one stream and its rendering. *)
(*                                                                         *)
(* Numbers.  f32 channel values, alphas and widths are integers in units   *)
(* of 1/Grid (1.0 is Grid).  Coordinates and matrix entries are integers.  *)
(***************************************************************************)
EXTENDS Integers, Sequences, FiniteSets, TLC

VARIABLES
    graphics_state,         \* RenderState.graphics_state
    text_state,             \* RenderState.text_state
    current_outline,        \* RenderState.current_outline : Outline
    current_contour,        \* RenderState.current_contour : Contour
    stack,                  \* RenderState.stack : Vec<(GraphicsState, TextState)>
    plotter,                \* the draw calls the Plotter received, in order
    allow_error_in_option,  \* resolve.options().allow_error_in_option
    i,                      \* number of operators of the stream taken so far
    result,                 \* "running", or how render ended: "ok" | "err" | "panic"
    error,                  \* the PdfError render returned (NoError before)
    last,                   \* history: the operator handled by the last step
    before,                 \* history: the two live states before the last step
    saved,                  \* history: the live states at the unmatched Saves
    path_ops,               \* history: path operators since the last draw/EndPath
    draw_ops                \* history: number of drawing operators handled

vars == <<graphics_state, text_state, current_outline, current_contour, stack,
          plotter, allow_error_in_option, i, result, error, last, before,
          saved, path_ops, draw_ops>>

(***************************************************************************)
(* Bounds of the model.                                                    *)
(***************************************************************************)
\* length of the operator streams explored
MaxOps == 4
\* 1.0 in the units the model counts f32 values in
Grid == 2

One == Grid

(***************************************************************************)
(* Plain data: pathfinder geometry and the plotter's types.                *)
(***************************************************************************)
\* Transform2F as <<a, b, c, d, e, f>>: x' = a x + c y + e, y' = b x + d y + f
Identity == <<1, 0, 0, 1, 0, 0>>

\* Transform2F * Transform2F: (m * n) applies n first, then m
Compose(m, n) ==
    << m[1] * n[1] + m[3] * n[2],
       m[2] * n[1] + m[4] * n[2],
       m[1] * n[3] + m[3] * n[4],
       m[2] * n[3] + m[4] * n[4],
       m[1] * n[5] + m[3] * n[6] + m[5],
       m[2] * n[5] + m[4] * n[6] + m[6] >>

Translation(v) == <<1, 0, 0, 1, v[1], v[2]>>

Solid(r, g, b) == [tag |-> "Solid", r |-> r, g |-> g, b |-> b]
PatternFill(ref) == [tag |-> "Pattern", ref |-> ref]
Black == Solid(0, 0, 0)

\* PdfError: its variant, its message and, for Try, the variant it wraps
NoError == [kind |-> "none", msg |-> "", source |-> "none"]
OtherError(m) == [kind |-> "Other", msg |-> m, source |-> "none"]
UnexpectedPrimitive == [kind |-> "UnexpectedPrimitive", msg |-> "", source |-> "none"]

\* the error the t! macro returns: PdfError::Try { source: e, .. }
TryError(e) == [kind |-> "Try", msg |-> e.msg, source |-> e.kind]

\* Contour: its points (with the control-point flag of each) and the closed flag
EmptyContour == [points |-> <<>>, closed |-> FALSE]

ContourIsEmpty(c) == c.points = <<>>

Endpoint(p) == [p |-> p, flag |-> "endpoint"]

ContourPushEndpoint(c, p) == [c EXCEPT !.points = Append(@, Endpoint(p))]

ContourPushCubic(c, c1, c2, p) ==
    [c EXCEPT !.points = @ \o << [p |-> c1, flag |-> "control0"],
                                 [p |-> c2, flag |-> "control1"],
                                 Endpoint(p) >>]

ContourClose(c) == [c EXCEPT !.closed = TRUE]

\* Contour::from_rect: origin, upper right, lower right, lower left, closed
ContourFromRect(r) ==
    [points |-> << Endpoint(<<r.x, r.y>>),
                   Endpoint(<<r.x + r.width, r.y>>),
                   Endpoint(<<r.x + r.width, r.y + r.height>>),
                   Endpoint(<<r.x, r.y + r.height>>) >>,
     closed |-> TRUE]

\* Outline::push_contour drops an empty contour
OutlinePushContour(o, c) == IF ContourIsEmpty(c) THEN o ELSE Append(o, c)

\* a conversion that gives the nonzero rule whatever the operator says
CvtWindingAlwaysWinding(w) == "Winding"

\* impl Cvt for Winding
CvtWinding(w) == IF w = "NonZero" THEN "Winding" ELSE "EvenOdd"

(***************************************************************************)
(* GraphicsState (graphics_state.rs) and TextState (text_state.rs).        *)
(***************************************************************************)
DeviceGray == [tag |-> "DeviceGray"]
DeviceRGB == [tag |-> "DeviceRGB"]
DeviceCMYK == [tag |-> "DeviceCMYK"]
PatternSpace == [tag |-> "Pattern"]

None == [tag |-> "None"]
Some(id) == [tag |-> "Some", id |-> id]

\* StrokeStyle::default() with the line width the interpreter sets
StrokeStyleDefault == [line_width |-> One, line_cap |-> "Butt", line_join |-> "Miter"]

\* the GraphicsState literal of RenderState::new
GraphicsStateNew(transform) ==
    [transform |-> transform,
     stroke_style |-> StrokeStyleDefault,
     fill_color |-> Black,
     fill_color_alpha |-> One,
     fill_paint |-> None,
     stroke_color |-> Black,
     stroke_color_alpha |-> One,
     stroke_paint |-> None,
     clip_path_id |-> None,
     fill_color_space |-> DeviceRGB,
     stroke_color_space |-> DeviceRGB,
     dash_pattern |-> None,
     stroke_alpha |-> One,
     fill_alpha |-> One,
     overprint_fill |-> FALSE,
     overprint_stroke |-> FALSE,
     overprint_mode |-> 0]

\* a clone that resets the stroke style instead of copying it
clone_drops_style(g) == [g EXCEPT !.stroke_style = StrokeStyleDefault]

\* impl Clone for GraphicsState: GraphicsState { .. *self }
clone(g) == g

\* a set_fill_color that clears the handle on every call
set_fill_color_always_clears(g, fill) == [g EXCEPT !.fill_color = fill, !.fill_paint = None]

set_fill_color(g, fill) ==
    IF fill # g.fill_color
    THEN [g EXCEPT !.fill_color = fill, !.fill_paint = None]
    ELSE g

set_stroke_color(g, fill) ==
    IF fill # g.stroke_color
    THEN [g EXCEPT !.stroke_color = fill, !.stroke_paint = None]
    ELSE g

\* the f32 product x * y of two values counted in units of 1/Grid
Mul(x, y) == (x * y) \div Grid

\* the product x * y is a value of the grid (it is counted without rounding)
Exact(x, y) == (x * y) % Grid = 0

set_fill_alpha(g, alpha) ==
    LET a == Mul(g.fill_alpha, alpha)
    IN  IF a # g.fill_color_alpha
        THEN [g EXCEPT !.fill_color_alpha = a, !.fill_paint = None]
        ELSE g

\* the then-branch assigns stroke_alpha, not stroke_color_alpha
set_stroke_alpha(g, alpha) ==
    LET a == Mul(g.stroke_alpha, alpha)
    IN  IF a # g.stroke_color_alpha
        THEN [g EXCEPT !.stroke_alpha = a, !.stroke_paint = None]
        ELSE g

\* GraphicsState::stroke
stroke(g) == [style |-> g.stroke_style, dash_pattern |-> g.dash_pattern]

TextStateNew ==
    [text_matrix |-> Identity,
     line_matrix |-> Identity,
     char_space |-> 0,
     word_space |-> 0,
     horiz_scale |-> One,
     leading |-> 0,
     font_size |-> 0,
     mode |-> "Fill",
     rise |-> 0,
     knockout |-> 0]

\* a set_matrix that assigns the text matrix only
set_matrix_text_only(t, m) == [t EXCEPT !.text_matrix = m]

set_matrix(t, m) == [t EXCEPT !.text_matrix = m, !.line_matrix = m]

reset_matrix(t) == set_matrix(t, Identity)

translate(t, v) == set_matrix(t, Compose(t.line_matrix, Translation(v)))

\* a next_line that moves up by the leading
next_line_upwards(t) == translate(t, <<0, t.leading>>)

next_line(t) == translate(t, <<0, 0 - t.leading>>)

(***************************************************************************)
(* Color spaces, operands and the resource table (pdf::object,             *)
(* pdf::content) as far as convert_color2 looks at them.                   *)
(***************************************************************************)
CalGray == [tag |-> "CalGray"]
CalRGB == [tag |-> "CalRGB"]
CalCMYK == [tag |-> "CalCMYK"]
OtherSpace == [tag |-> "Other"]
Icc(alternate) == [tag |-> "Icc", alternate |-> alternate]
Named(name) == [tag |-> "Named", name |-> name]
Indexed(base, hival, lut) ==
    [tag |-> "Indexed", base |-> base, hival |-> hival, lut |-> lut]
Separation(name, alt, f) == [tag |-> "Separation", name |-> name, alt |-> alt, f |-> f]
DeviceN(names, alt, tint) == [tag |-> "DeviceN", names |-> names, alt |-> alt, tint |-> tint]

\* a tint function: every output channel repeats an input channel
Function(input_dim, output_dim) == [input_dim |-> input_dim, output_dim |-> output_dim]

\* Primitive operands of Color::Other
Integer(n) == [t |-> "Integer", v |-> n]
Number(v) == [t |-> "Number", v |-> v]
Name(n) == [t |-> "Name", name |-> n]

\* pdf::content::Color
Gray(g) == [tag |-> "Gray", g |-> g]
Rgb(r, g, b) == [tag |-> "Rgb", red |-> r, green |-> g, blue |-> b]
Cmyk(c, m, y, k) == [tag |-> "Cmyk", cyan |-> c, magenta |-> m, yellow |-> y, key |-> k]
Other(args) == [tag |-> "Other", args |-> args]

\* resources.color_spaces of the page rendered
ColorSpaces ==
    [CsCalGray |-> CalGray,
     CsCalRGB  |-> CalRGB,
     CsCalCMYK |-> CalCMYK,
     CsIccGray |-> Icc(DeviceGray),
     CsIccNone |-> Icc(None),
     CsIccIcc  |-> Icc(Icc(DeviceRGB)),
     CsIccSep  |-> Icc(Separation("Spot", DeviceGray, Function(1, 1))),
     CsIccNamed |-> Icc(Named("CsCalGray")),
     CsIdxRGB  |-> Indexed(DeviceRGB, 1, <<0, 255, 1, 7, 0, 3, 9>>),
     CsIdxCMYK |-> Indexed(DeviceCMYK, 0, <<0, 1, 0, 0, 0, 0, 0, 1>>),
     CsIdxGray |-> Indexed(DeviceGray, 1, <<0, 255>>),
     CsSepGray |-> Separation("Spot", DeviceGray, Function(1, 1)),
     CsSepRGB  |-> Separation("Spot", Icc(DeviceRGB), Function(1, 3)),
     CsSepCMYK |-> Separation("Spot", DeviceCMYK, Function(1, 4)),
     CsSepPat  |-> Separation("Spot", PatternSpace, Function(1, 1)),
     CsSepIcc  |-> Separation("Spot", Icc(None), Function(1, 3)),
     CsSepIccIcc |-> Separation("Spot", Icc(Icc(DeviceRGB)), Function(1, 3)),
     CsDevN    |-> DeviceN(<<"A", "B">>, DeviceRGB, Function(2, 3)),
     CsDevNCal |-> DeviceN(<<"A", "B">>, CalRGB, Function(2, 3)),
     CsDevNGray |-> DeviceN(<<"A">>, DeviceGray, Function(1, 1)),
     CsDevNCMYK |-> DeviceN(<<"A", "B">>, Icc(DeviceCMYK), Function(2, 4)),
     CsDevNShort |-> DeviceN(<<"A", "B">>, DeviceRGB, Function(2, 1)),
     CsOther   |-> OtherSpace,
     CsNamed   |-> Named("CsCalGray"),
     CsNamed2  |-> Named("CsNamed"),
     CsNamedX  |-> Named("Absent"),
     CsNamedIcc |-> Named("CsIccGray"),
     CsNamedSep |-> Named("CsSepGray")]

\* resources.pattern
Patterns == [P1 |-> 7]

(***************************************************************************)
(* The color resolver: convert_color, convert_color2, gray2rgb, cmyk2rgb.  *)
(***************************************************************************)
Ok(fill, cs) == [res |-> "ok", fill |-> fill, cs |-> cs, err |-> NoError]
Err(e, cs) == [res |-> "err", fill |-> None, cs |-> cs, err |-> e]
Panic(cs) == [res |-> "panic", fill |-> None, cs |-> cs, err |-> NoError]

\* gray2rgb
gray2rgb(g) == Solid(g, g, g)

clamp(f) == IF f > One THEN One ELSE f

\* a conversion that forgets to clamp the sums
cmyk2rgb_unclamped(c, m, y, k, mode) ==
    Solid(One - (c + k), One - (m + k), One - (y + k))

\* cmyk2rgb
cmyk2rgb(c, m, y, k, mode) ==
    Solid(One - clamp(c + k), One - clamp(m + k), One - clamp(y + k))

IsNumber(p) == p.t \in {"Integer", "Number"}

\* Primitive::as_number of an operand that is one: an Integer n is n as f32
as_number(p) == IF p.t = "Integer" THEN p.v * Grid ELSE p.v

AllNumbers(args) == \A j \in 1..Len(args) : IsNumber(args[j])

\* Function::apply(input, out): out has to have the function's output arity
FunctionApplies(f, input, outlen) == Len(input) = f.input_dim /\ outlen = f.output_dim

FunctionApply(f, input, outlen) ==
    [j \in 1..outlen |-> input[((j - 1) % Len(input)) + 1]]

FunctionError == OtherError("function")

\* a conversion of a byte that scales 0..255 to 0..1.0
ByteAsF32Normalized(b) == (b * Grid) \div 255

\* an u8 of a lookup table as f32: the byte value itself
ByteAsF32(b) == b * Grid

\* a selection that infers the space of an ICC profile from the operand count
\* whether or not the profile carries an alternate
SelectSpaceWithoutAlternate(cs, args) ==
    CASE cs.tag = "Icc" ->
            IF Len(args) = 3 THEN [res |-> "ok", cs |-> DeviceRGB]
            ELSE IF Len(args) = 4 THEN [res |-> "ok", cs |-> DeviceCMYK]
            ELSE [res |-> "err",
                  err |-> OtherError("ICC profile without alternate color space")]
      [] cs.tag = "Named" ->
            IF cs.name \in DOMAIN ColorSpaces
            THEN [res |-> "ok", cs |-> ColorSpaces[cs.name]]
            ELSE [res |-> "err", err |-> OtherError("named color space not found")]
      [] OTHER -> [res |-> "ok", cs |-> cs]

\* the first match of Color::Other: the space the operands are read against
SelectSpace(cs, args) ==
    CASE cs.tag = "Icc" ->
            IF cs.alternate # None THEN [res |-> "ok", cs |-> cs.alternate]
            ELSE IF Len(args) = 3 THEN [res |-> "ok", cs |-> DeviceRGB]
            ELSE IF Len(args) = 4 THEN [res |-> "ok", cs |-> DeviceCMYK]
            ELSE [res |-> "err",
                  err |-> OtherError("ICC profile without alternate color space")]
      [] cs.tag = "Named" ->
            IF cs.name \in DOMAIN ColorSpaces
            THEN [res |-> "ok", cs |-> ColorSpaces[cs.name]]
            ELSE [res |-> "err", err |-> OtherError("named color space not found")]
      [] OTHER -> [res |-> "ok", cs |-> cs]

ExpectedArgs(n) ==
    CASE n = 1 -> OtherError("expected 1 color arguments")
      [] n = 3 -> OtherError("expected 3 color arguments")
      [] n = 4 -> OtherError("expected 4 color arguments")

\* the arm for ColorSpace::DeviceN; keep is the caller's space, left as it is
ConvertDeviceN(cs, args, mode, keep) ==
    IF Len(args) # cs.tint.input_dim THEN Panic(keep)
    ELSE IF ~AllNumbers(args) THEN Err(UnexpectedPrimitive, keep)
    ELSE IF ~FunctionApplies(cs.tint, args, cs.tint.output_dim)
    THEN Err(FunctionError, keep)
    ELSE
      LET out == FunctionApply(cs.tint, [j \in 1..Len(args) |-> as_number(args[j])],
                               cs.tint.output_dim)
          alt == IF cs.alt.tag = "Icc" THEN cs.alt.alternate ELSE cs.alt
      IN  CASE alt.tag = "DeviceGray" ->
                  IF Len(out) < 1 THEN Panic(keep)
                  ELSE Ok(Solid(out[1], out[1], out[1]), keep)
            [] alt.tag = "DeviceRGB" ->
                  IF Len(out) < 3 THEN Panic(keep)
                  ELSE Ok(Solid(out[1], out[2], out[3]), keep)
            [] alt.tag = "DeviceCMYK" ->
                  IF Len(out) < 4 THEN Panic(keep)
                  ELSE Ok(cmyk2rgb(out[1], out[2], out[3], out[4], mode), keep)
            [] OTHER -> Panic(keep)

\* the arm for ColorSpace::Separation
ConvertSeparation(cs, args, mode, keep) ==
    IF Len(args) # 1 THEN Err(ExpectedArgs(1), keep)
    ELSE IF ~IsNumber(args[1]) THEN Err(UnexpectedPrimitive, keep)
    ELSE IF cs.alt.tag = "Icc" /\ cs.alt.alternate = None
    THEN Err(OtherError("no alternate color space in ICC profile"), keep)
    ELSE
      LET x == as_number(args[1])
          alt == IF cs.alt.tag = "Icc" THEN cs.alt.alternate ELSE cs.alt
          n == CASE alt.tag = "DeviceCMYK" -> 4
                 [] alt.tag = "DeviceRGB" -> 3
                 [] alt.tag = "DeviceGray" -> 1
                 [] OTHER -> 0
          out == FunctionApply(cs.f, <<x>>, n)
      IN  IF n = 0 THEN Panic(keep)
          ELSE IF ~FunctionApplies(cs.f, <<x>>, n) THEN Err(FunctionError, keep)
          ELSE CASE n = 4 -> Ok(cmyk2rgb(out[1], out[2], out[3], out[4], mode), keep)
                 [] n = 3 -> Ok(Solid(out[1], out[2], out[3]), keep)
                 [] n = 1 -> Ok(Solid(out[1], out[1], out[1]), keep)

\* lut[n * i as usize ..] and the reads c[0] .. c[n-1]: do they stay in the table
LutReadable(lut, n, idx) == idx >= 0 /\ n * idx + n <= Len(lut)

\* the arm for ColorSpace::Indexed
ConvertIndexed(cs, args, mode, keep) ==
    IF Len(args) # 1 THEN Err(ExpectedArgs(1), keep)
    ELSE IF args[1].t # "Integer" THEN Err(UnexpectedPrimitive, keep)
    ELSE
      LET idx == args[1].v
          c(j) == ByteAsF32(cs.lut[(IF cs.base.tag = "DeviceRGB" THEN 3 ELSE 4) * idx + j + 1])
      IN  CASE cs.base.tag = "DeviceRGB" ->
                  IF ~LutReadable(cs.lut, 3, idx) THEN Panic(keep)
                  ELSE Ok(Solid(c(0), c(1), c(2)), keep)
            [] cs.base.tag = "DeviceCMYK" ->
                  IF ~LutReadable(cs.lut, 4, idx) THEN Panic(keep)
                  ELSE Ok(cmyk2rgb(c(0), c(1), c(2), c(3), mode), keep)
            [] OTHER -> Panic(keep)

\* the arm for ColorSpace::Pattern
ConvertPattern(args, keep) ==
    IF Len(args) = 0 THEN Panic(keep)
    ELSE IF args[1].t # "Name" THEN Err(UnexpectedPrimitive, keep)
    ELSE IF args[1].name \in DOMAIN Patterns
    THEN Ok(PatternFill(Patterns[args[1].name]), keep)
    ELSE Panic(keep)

\* the second match of Color::Other: the operands read against space cs
Interpret(cs, args, mode, keep) ==
    CASE cs.tag = "Icc" -> Err(OtherError("nested ICC color space"), keep)
      [] cs.tag \in {"DeviceGray", "CalGray"} ->
            IF Len(args) # 1 THEN Err(ExpectedArgs(1), keep)
            ELSE IF ~AllNumbers(args) THEN Err(UnexpectedPrimitive, keep)
            ELSE Ok(gray2rgb(as_number(args[1])), keep)
      [] cs.tag \in {"DeviceRGB", "CalRGB"} ->
            IF Len(args) # 3 THEN Err(ExpectedArgs(3), keep)
            ELSE IF ~AllNumbers(args) THEN Err(UnexpectedPrimitive, keep)
            ELSE Ok(Solid(as_number(args[1]), as_number(args[2]), as_number(args[3])), keep)
      [] cs.tag \in {"DeviceCMYK", "CalCMYK"} ->
            IF Len(args) # 4 THEN Err(ExpectedArgs(4), keep)
            ELSE IF ~AllNumbers(args) THEN Err(UnexpectedPrimitive, keep)
            ELSE Ok(cmyk2rgb(as_number(args[1]), as_number(args[2]), as_number(args[3]),
                             as_number(args[4]), mode), keep)
      [] cs.tag = "DeviceN" -> ConvertDeviceN(cs, args, mode, keep)
      [] cs.tag = "Separation" -> ConvertSeparation(cs, args, mode, keep)
      [] cs.tag = "Indexed" -> ConvertIndexed(cs, args, mode, keep)
      [] cs.tag = "Pattern" -> ConvertPattern(args, keep)
      [] cs.tag = "Other" -> Panic(keep)
      [] cs.tag = "Named" -> Panic(keep)

\* a convert_color2 that resolves a bare color and leaves the reference alone
convert_color2_keeps_space(cs, color, mode) ==
    CASE color.tag = "Gray" -> Ok(gray2rgb(color.g), cs)
      [] color.tag = "Rgb" -> Ok(Solid(color.red, color.green, color.blue), cs)
      [] color.tag = "Cmyk" ->
            Ok(cmyk2rgb(color.cyan, color.magenta, color.yellow, color.key, mode), cs)
      [] color.tag = "Other" ->
            LET sel == SelectSpace(cs, color.args)
            IN  IF sel.res = "err" THEN Err(sel.err, cs)
                ELSE Interpret(sel.cs, color.args, mode, cs)

\* a convert_color2 that assigns the selected space to the caller's reference
convert_color2_rebinds(cs, color, mode) ==
    CASE color.tag = "Gray" -> Ok(gray2rgb(color.g), DeviceGray)
      [] color.tag = "Rgb" -> Ok(Solid(color.red, color.green, color.blue), DeviceRGB)
      [] color.tag = "Cmyk" ->
            Ok(cmyk2rgb(color.cyan, color.magenta, color.yellow, color.key, mode),
               DeviceCMYK)
      [] color.tag = "Other" ->
            LET sel == SelectSpace(cs, color.args)
            IN  IF sel.res = "err" THEN Err(sel.err, cs)
                ELSE Interpret(sel.cs, color.args, mode, sel.cs)

\* convert_color2: the fill, and the space the caller's reference is left at
convert_color2(cs, color, mode) ==
    CASE color.tag = "Gray" -> Ok(gray2rgb(color.g), DeviceGray)
      [] color.tag = "Rgb" -> Ok(Solid(color.red, color.green, color.blue), DeviceRGB)
      [] color.tag = "Cmyk" ->
            Ok(cmyk2rgb(color.cyan, color.magenta, color.yellow, color.key, mode),
               DeviceCMYK)
      [] color.tag = "Other" ->
            LET sel == SelectSpace(cs, color.args)
            IN  IF sel.res = "err" THEN Err(sel.err, cs)
                ELSE Interpret(sel.cs, color.args, mode, cs)

\* a convert_color that substitutes black whatever the option says
convert_color_always_lenient(cs, color, mode, allow) ==
    LET r == convert_color2(cs, color, mode)
    IN  IF r.res = "err" THEN Ok(Black, r.cs) ELSE r

\* a convert_color that substitutes black as a bare gray of 0.0 would: the
\* caller's space is left at DeviceGray
convert_color_black_as_gray(cs, color, mode, allow) ==
    LET r == convert_color2(cs, color, mode)
    IN  IF r.res = "err" /\ allow THEN Ok(Black, DeviceGray) ELSE r

\* convert_color
convert_color(cs, color, mode, allow) ==
    LET r == convert_color2(cs, color, mode)
    IN  IF r.res = "err" /\ allow THEN Ok(Black, r.cs) ELSE r

\* RenderState::color_space
color_space(name) ==
    CASE name = "DeviceGray" -> [res |-> "ok", cs |-> DeviceGray, err |-> NoError]
      [] name = "DeviceRGB" -> [res |-> "ok", cs |-> DeviceRGB, err |-> NoError]
      [] name = "DeviceCMYK" -> [res |-> "ok", cs |-> DeviceCMYK, err |-> NoError]
      [] name = "Pattern" -> [res |-> "ok", cs |-> PatternSpace, err |-> NoError]
      [] OTHER ->
            IF name \in DOMAIN ColorSpaces
            THEN [res |-> "ok", cs |-> ColorSpaces[name], err |-> NoError]
            ELSE [res |-> "err", cs |-> None,
                  err |-> OtherError("color space not present")]

(***************************************************************************)
(* RenderState (render.rs).                                                *)
(***************************************************************************)
\* RenderState::new, and the stream not yet started
Init ==
    /\ graphics_state = GraphicsStateNew(Identity)
    /\ text_state = TextStateNew
    /\ current_outline = <<>>
    /\ current_contour = EmptyContour
    /\ stack = <<>>
    /\ plotter = <<>>
    /\ allow_error_in_option \in BOOLEAN
    /\ i = 0
    /\ result = "running"
    /\ error = NoError
    /\ last = [op |-> "none"]
    /\ before = <<GraphicsStateNew(Identity), TextStateNew>>
    /\ saved = <<>>
    /\ path_ops = <<>>
    /\ draw_ops = 0

\* the loop of render has another operator to take
More == result = "running" /\ i < MaxOps

DrawingOps == {"Fill", "Stroke", "FillAndStroke"}

\* what every successfully handled operator does to the loop and the history
Took(op) ==
    /\ i' = i + 1
    /\ last' = op
    /\ before' = <<graphics_state, text_state>>
    /\ draw_ops' = IF op.op \in DrawingOps THEN draw_ops + 1 ELSE draw_ops
    /\ UNCHANGED <<allow_error_in_option, result, error>>

\* a flush that pushes the current contour whether or not it has points
flush_outline_pushes_empty(o, c) == Append(o, c)

\* RenderState::flush, as the pair it leaves: the outline and the contour
flush_outline(o, c) == IF ~ContourIsEmpty(c) THEN OutlinePushContour(o, c) ELSE o

\* a flush that pushes the contour and forgets to clear it
flush_contour_keeps(c) == c

\* Contour::clear as flush calls it
flush_contour(c) == IF ~ContourIsEmpty(c) THEN EmptyContour ELSE c

PathUnchanged == UNCHANGED <<current_outline, current_contour, path_ops>>
StateUnchanged == UNCHANGED <<graphics_state, text_state, stack, saved>>

\* Op::Close
Close ==
    /\ More
    /\ current_contour' = ContourClose(current_contour)
    /\ path_ops' = Append(path_ops, [op |-> "Close"])
    /\ Took([op |-> "Close"])
    /\ UNCHANGED <<current_outline, plotter>>
    /\ StateUnchanged

\* Op::MoveTo { p }
MoveTo(p) ==
    /\ More
    /\ current_outline' = flush_outline(current_outline, current_contour)
    /\ current_contour' = ContourPushEndpoint(flush_contour(current_contour), p)
    /\ path_ops' = Append(path_ops, [op |-> "MoveTo", p |-> p])
    /\ Took([op |-> "MoveTo", p |-> p])
    /\ UNCHANGED plotter
    /\ StateUnchanged

\* Op::LineTo { p }
LineTo(p) ==
    /\ More
    /\ current_contour' = ContourPushEndpoint(current_contour, p)
    /\ path_ops' = Append(path_ops, [op |-> "LineTo", p |-> p])
    /\ Took([op |-> "LineTo", p |-> p])
    /\ UNCHANGED <<current_outline, plotter>>
    /\ StateUnchanged

\* Op::CurveTo { c1, c2, p }
CurveTo(c1, c2, p) ==
    /\ More
    /\ current_contour' = ContourPushCubic(current_contour, c1, c2, p)
    /\ path_ops' = Append(path_ops, [op |-> "CurveTo", c1 |-> c1, c2 |-> c2, p |-> p])
    /\ Took([op |-> "CurveTo", c1 |-> c1, c2 |-> c2, p |-> p])
    /\ UNCHANGED <<current_outline, plotter>>
    /\ StateUnchanged

\* a Rect that pushes the rectangle and leaves the current subpath pending
RectWithoutFlush(rect) ==
    /\ More
    /\ current_outline' = OutlinePushContour(current_outline, ContourFromRect(rect))
    /\ current_contour' = current_contour
    /\ path_ops' = Append(path_ops, [op |-> "Rect", rect |-> rect])
    /\ Took([op |-> "Rect", rect |-> rect])
    /\ UNCHANGED plotter
    /\ StateUnchanged

\* Op::Rect { rect }
Rect(rect) ==
    /\ More
    /\ current_outline' =
          OutlinePushContour(flush_outline(current_outline, current_contour),
                             ContourFromRect(rect))
    /\ current_contour' = flush_contour(current_contour)
    /\ path_ops' = Append(path_ops, [op |-> "Rect", rect |-> rect])
    /\ Took([op |-> "Rect", rect |-> rect])
    /\ UNCHANGED plotter
    /\ StateUnchanged

\* an EndPath that clears the current subpath only
EndPathKeepsOutline ==
    /\ More
    /\ current_contour' = EmptyContour
    /\ current_outline' = current_outline
    /\ path_ops' = path_ops
    /\ Took([op |-> "EndPath"])
    /\ UNCHANGED plotter
    /\ StateUnchanged

\* Op::EndPath
EndPath ==
    /\ More
    /\ current_contour' = EmptyContour
    /\ current_outline' = <<>>
    /\ path_ops' = <<>>
    /\ Took([op |-> "EndPath"])
    /\ UNCHANGED plotter
    /\ StateUnchanged

BlendModes == {"Overlay", "Darken"}

\* a stroke blend mode that looks at the fill flag
blend_mode_stroke_of_fill_flag(g) == IF g.overprint_fill THEN "Darken" ELSE "Overlay"

\* RenderState::blend_mode_stroke
blend_mode_stroke(g) == IF g.overprint_stroke THEN "Darken" ELSE "Overlay"

\* RenderState::blend_mode_fill
blend_mode_fill(g) == IF g.overprint_fill THEN "Darken" ELSE "Overlay"

\* the FillMode literal of the fill side
FillModeOfFill(g) ==
    [color |-> g.fill_color, alpha |-> g.fill_color_alpha, mode |-> blend_mode_fill(g)]

\* a stroke FillMode that carries the fill color
FillModeOfStrokeWithFillColor(g) ==
    [color |-> g.fill_color, alpha |-> g.stroke_color_alpha,
     mode |-> blend_mode_stroke(g)]

\* the FillMode literal of the stroke side
FillModeOfStroke(g) ==
    [color |-> g.stroke_color, alpha |-> g.stroke_color_alpha,
     mode |-> blend_mode_stroke(g)]

\* the call self.plotter.draw(..) of RenderState::draw, after its flush
DrawCall(mode, fill_rule) ==
    [outline |-> flush_outline(current_outline, current_contour),
     mode |-> mode,
     fill_rule |-> fill_rule,
     transform |-> graphics_state.transform,
     clip |-> graphics_state.clip_path_id]

\* a draw that hands the plotter nothing when the outline is empty
draw_skips_empty_outline(mode, fill_rule) ==
    /\ plotter' = IF flush_outline(current_outline, current_contour) = <<>>
                  THEN plotter
                  ELSE Append(plotter, DrawCall(mode, fill_rule))
    /\ current_outline' = <<>>
    /\ current_contour' = flush_contour(current_contour)

\* a draw whose call reaches the plotter ahead of the calls made before it
draw_out_of_order(mode, fill_rule) ==
    /\ plotter' = <<DrawCall(mode, fill_rule)>> \o plotter
    /\ current_outline' = <<>>
    /\ current_contour' = flush_contour(current_contour)

\* RenderState::draw
draw(mode, fill_rule) ==
    /\ plotter' = Append(plotter, DrawCall(mode, fill_rule))
    /\ current_outline' = <<>>
    /\ current_contour' = flush_contour(current_contour)

\* Op::Stroke
Stroke ==
    /\ More
    /\ draw([kind |-> "Stroke",
             stroke |-> FillModeOfStroke(graphics_state),
             stroke_mode |-> stroke(graphics_state)],
            "Winding")
    /\ path_ops' = <<>>
    /\ Took([op |-> "Stroke"])
    /\ StateUnchanged

\* Op::FillAndStroke { winding }
FillAndStroke(winding) ==
    /\ More
    /\ draw([kind |-> "FillStroke",
             fill |-> FillModeOfFill(graphics_state),
             stroke |-> FillModeOfStroke(graphics_state),
             stroke_mode |-> stroke(graphics_state)],
            CvtWinding(winding))
    /\ path_ops' = <<>>
    /\ Took([op |-> "FillAndStroke", winding |-> winding])
    /\ StateUnchanged

\* Op::Fill { winding }
Fill(winding) ==
    /\ More
    /\ draw([kind |-> "Fill", fill |-> FillModeOfFill(graphics_state)],
            CvtWinding(winding))
    /\ path_ops' = <<>>
    /\ Took([op |-> "Fill", winding |-> winding])
    /\ StateUnchanged

\* an error that is dropped: the loop goes on with the next operator
FailedContinues(op, e) == Took(op)

\* an operator that returns Err(e) from render: the loop stops at it
Failed(op, e) ==
    /\ result' = "err"
    /\ error' = e
    /\ last' = op
    /\ before' = <<graphics_state, text_state>>
    /\ UNCHANGED <<allow_error_in_option, i, draw_ops>>

\* an operator that panics (unimplemented!, assert_eq!, an index out of range)
Panicked(op) ==
    /\ result' = "panic"
    /\ last' = op
    /\ before' = <<graphics_state, text_state>>
    /\ UNCHANGED <<allow_error_in_option, i, error, draw_ops>>

\* a Save that flushes the current subpath first
SaveFlushes ==
    /\ More
    /\ stack' = Append(stack, <<clone(graphics_state), text_state>>)
    /\ saved' = Append(saved, <<graphics_state, text_state>>)
    /\ current_outline' = flush_outline(current_outline, current_contour)
    /\ current_contour' = flush_contour(current_contour)
    /\ Took([op |-> "Save"])
    /\ UNCHANGED <<graphics_state, text_state, plotter, path_ops>>

\* Op::Save
Save ==
    /\ More
    /\ stack' = Append(stack, <<clone(graphics_state), text_state>>)
    /\ saved' = Append(saved, <<graphics_state, text_state>>)
    /\ Took([op |-> "Save"])
    /\ UNCHANGED <<graphics_state, text_state, plotter>>
    /\ PathUnchanged

\* self.stack.pop(): the element popped
StackTop(s) == s[Len(s)]

\* self.stack.pop(): what is left
StackRest(s) == SubSeq(s, 1, Len(s) - 1)

\* a Restore that also throws away the path under construction
RestoreDropsPath ==
    /\ More
    /\ IF stack = <<>>
       THEN /\ Failed([op |-> "Restore"], OtherError("graphcs stack is empty"))
            /\ UNCHANGED <<graphics_state, text_state, stack, saved>>
            /\ PathUnchanged
       ELSE /\ graphics_state' = StackTop(stack)[1]
            /\ text_state' = StackTop(stack)[2]
            /\ stack' = StackRest(stack)
            /\ saved' = SubSeq(saved, 1, Len(saved) - 1)
            /\ current_contour' = EmptyContour
            /\ current_outline' = <<>>
            /\ path_ops' = <<>>
            /\ Took([op |-> "Restore"])
    /\ UNCHANGED plotter

\* Op::Restore
Restore ==
    /\ More
    /\ IF stack = <<>>
       THEN /\ Failed([op |-> "Restore"], OtherError("graphcs stack is empty"))
            /\ UNCHANGED <<graphics_state, text_state, stack, saved>>
       ELSE /\ graphics_state' = StackTop(stack)[1]
            /\ text_state' = StackTop(stack)[2]
            /\ stack' = StackRest(stack)
            /\ saved' = SubSeq(saved, 1, Len(saved) - 1)
            /\ Took([op |-> "Restore"])
    /\ UNCHANGED plotter
    /\ PathUnchanged

GraphicsOnly == UNCHANGED <<text_state, stack, saved, plotter>>
TextOnly == UNCHANGED <<graphics_state, stack, saved, plotter>>

\* a Transform that multiplies the operator's matrix from the left
TransformFromLeft(matrix) ==
    /\ More
    /\ graphics_state' = [graphics_state EXCEPT !.transform = Compose(matrix, @)]
    /\ Took([op |-> "Transform", matrix |-> matrix])
    /\ GraphicsOnly
    /\ PathUnchanged

\* Op::Transform { matrix }
Transform(matrix) ==
    /\ More
    /\ graphics_state' = [graphics_state EXCEPT !.transform = Compose(@, matrix)]
    /\ Took([op |-> "Transform", matrix |-> matrix])
    /\ GraphicsOnly
    /\ PathUnchanged

\* Op::LineWidth { width }
LineWidth(width) ==
    /\ More
    /\ graphics_state' = [graphics_state EXCEPT !.stroke_style.line_width = width]
    /\ Took([op |-> "LineWidth", width |-> width])
    /\ GraphicsOnly
    /\ PathUnchanged

\* the operators render recognises and skips
SkippedOps ==
    {"BeginMarkedContent", "EndMarkedContent", "MarkedContentPoint", "Shade",
     "Clip", "Dash", "LineJoin", "LineCap", "MiterLimit", "Flatness",
     "GraphicsState", "RenderingIntent", "EndText", "TextFont", "TextDraw",
     "TextDrawAdjusted", "XObject", "InlineImage"}

\* arms that assign what the disabled bodies of Clip, Dash and GraphicsState
\* would: a clip reference, a dash pattern, the overprint flags
SkippedAssigns(op) ==
    /\ More
    /\ op \in SkippedOps
    /\ graphics_state' =
          CASE op = "Clip" -> [graphics_state EXCEPT !.clip_path_id = Some(1)]
            [] op = "Dash" -> [graphics_state EXCEPT !.dash_pattern = Some(1)]
            [] op = "GraphicsState" ->
                  [graphics_state EXCEPT !.overprint_fill = TRUE,
                                         !.overprint_stroke = TRUE]
            [] OTHER -> graphics_state
    /\ Took([op |-> op])
    /\ UNCHANGED <<text_state, stack, saved, plotter>>
    /\ PathUnchanged

\* an arm that flushes the pending subpath, as the disabled body of Clip does
SkippedFlushes(op) ==
    /\ More
    /\ op \in SkippedOps
    /\ current_outline' = flush_outline(current_outline, current_contour)
    /\ current_contour' = flush_contour(current_contour)
    /\ Took([op |-> op])
    /\ UNCHANGED <<plotter, path_ops>>
    /\ StateUnchanged

\* the match arms with an empty body
Skipped(op) ==
    /\ More
    /\ op \in SkippedOps
    /\ Took([op |-> op])
    /\ UNCHANGED plotter
    /\ StateUnchanged
    /\ PathUnchanged

\* Op::BeginText
BeginText ==
    /\ More
    /\ text_state' = reset_matrix(text_state)
    /\ Took([op |-> "BeginText"])
    /\ TextOnly
    /\ PathUnchanged

\* Op::CharSpacing { char_space }
CharSpacing(char_space) ==
    /\ More
    /\ text_state' = [text_state EXCEPT !.char_space = char_space]
    /\ Took([op |-> "CharSpacing", char_space |-> char_space])
    /\ TextOnly
    /\ PathUnchanged

\* Op::WordSpacing { word_space }
WordSpacing(word_space) ==
    /\ More
    /\ text_state' = [text_state EXCEPT !.word_space = word_space]
    /\ Took([op |-> "WordSpacing", word_space |-> word_space])
    /\ TextOnly
    /\ PathUnchanged

\* Op::TextScaling { horiz_scale }: 0.01 * horiz_scale, in units of 1/Grid
TextScaling(horiz_scale) ==
    /\ More
    /\ text_state' = [text_state EXCEPT !.horiz_scale = (horiz_scale * Grid) \div 100]
    /\ Took([op |-> "TextScaling", horiz_scale |-> horiz_scale])
    /\ TextOnly
    /\ PathUnchanged

\* Op::Leading { leading }
Leading(leading) ==
    /\ More
    /\ text_state' = [text_state EXCEPT !.leading = leading]
    /\ Took([op |-> "Leading", leading |-> leading])
    /\ TextOnly
    /\ PathUnchanged

\* Op::TextRenderMode { mode }
TextRenderMode(mode) ==
    /\ More
    /\ text_state' = [text_state EXCEPT !.mode = mode]
    /\ Took([op |-> "TextRenderMode", mode |-> mode])
    /\ TextOnly
    /\ PathUnchanged

\* Op::TextRise { rise }
TextRise(rise) ==
    /\ More
    /\ text_state' = [text_state EXCEPT !.rise = rise]
    /\ Took([op |-> "TextRise", rise |-> rise])
    /\ TextOnly
    /\ PathUnchanged

\* Op::MoveTextPosition { translation }
MoveTextPosition(translation) ==
    /\ More
    /\ text_state' = translate(text_state, translation)
    /\ Took([op |-> "MoveTextPosition", translation |-> translation])
    /\ TextOnly
    /\ PathUnchanged

\* Op::SetTextMatrix { matrix }
SetTextMatrix(matrix) ==
    /\ More
    /\ text_state' = set_matrix(text_state, matrix)
    /\ Took([op |-> "SetTextMatrix", matrix |-> matrix])
    /\ TextOnly
    /\ PathUnchanged

\* Op::TextNewline
TextNewline ==
    /\ More
    /\ text_state' = next_line(text_state)
    /\ Took([op |-> "TextNewline"])
    /\ TextOnly
    /\ PathUnchanged

\* Op::StrokeColor { color }
StrokeColor(color) ==
    /\ More
    /\ LET op == [op |-> "StrokeColor", color |-> color]
           r == convert_color(graphics_state.stroke_color_space, color,
                             blend_mode_stroke(graphics_state), allow_error_in_option)
       IN  CASE r.res = "ok" ->
                   /\ graphics_state' =
                         set_stroke_color([graphics_state EXCEPT !.stroke_color_space = r.cs],
                                        r.fill)
                   /\ Took(op)
             [] r.res = "err" ->
                   /\ graphics_state' = [graphics_state EXCEPT !.stroke_color_space = r.cs]
                   /\ Failed(op, TryError(r.err))
             [] r.res = "panic" ->
                   /\ graphics_state' = [graphics_state EXCEPT !.stroke_color_space = r.cs]
                   /\ Panicked(op)
    /\ GraphicsOnly
    /\ PathUnchanged

\* Op::FillColor { color }
FillColor(color) ==
    /\ More
    /\ LET op == [op |-> "FillColor", color |-> color]
           r == convert_color(graphics_state.fill_color_space, color,
                             blend_mode_fill(graphics_state), allow_error_in_option)
       IN  CASE r.res = "ok" ->
                   /\ graphics_state' =
                         set_fill_color([graphics_state EXCEPT !.fill_color_space = r.cs],
                                      r.fill)
                   /\ Took(op)
             [] r.res = "err" ->
                   /\ graphics_state' = [graphics_state EXCEPT !.fill_color_space = r.cs]
                   /\ Failed(op, TryError(r.err))
             [] r.res = "panic" ->
                   /\ graphics_state' = [graphics_state EXCEPT !.fill_color_space = r.cs]
                   /\ Panicked(op)
    /\ GraphicsOnly
    /\ PathUnchanged

\* a FillColorSpace that sets the space and leaves the color as it is
FillColorSpaceKeepsColor(name) ==
    /\ More
    /\ LET op == [op |-> "FillColorSpace", name |-> name]
           r == color_space(name)
       IN  IF r.res = "ok"
           THEN /\ graphics_state' = [graphics_state EXCEPT !.fill_color_space = r.cs]
                /\ Took(op)
           ELSE /\ Failed(op, r.err)
                /\ UNCHANGED graphics_state
    /\ GraphicsOnly
    /\ PathUnchanged

\* Op::FillColorSpace { name }
FillColorSpace(name) ==
    /\ More
    /\ LET op == [op |-> "FillColorSpace", name |-> name]
           r == color_space(name)
       IN  IF r.res = "ok"
           THEN /\ graphics_state' =
                      set_fill_color([graphics_state EXCEPT !.fill_color_space = r.cs], Black)
                /\ Took(op)
           ELSE /\ Failed(op, r.err)
                /\ UNCHANGED graphics_state
    /\ GraphicsOnly
    /\ PathUnchanged

\* Op::StrokeColorSpace { name }
StrokeColorSpace(name) ==
    /\ More
    /\ LET op == [op |-> "StrokeColorSpace", name |-> name]
           r == color_space(name)
       IN  IF r.res = "ok"
           THEN /\ graphics_state' =
                      set_stroke_color([graphics_state EXCEPT !.stroke_color_space = r.cs],
                                     Black)
                /\ Took(op)
           ELSE /\ Failed(op, r.err)
                /\ UNCHANGED graphics_state
    /\ GraphicsOnly
    /\ PathUnchanged

\* the for loop of render runs out of operators: Ok(())
EndOfStream ==
    /\ result = "running"
    /\ result' = "ok"
    /\ UNCHANGED <<graphics_state, text_state, stack, saved, plotter, draw_ops,
                   allow_error_in_option, i, error, last, before>>
    /\ PathUnchanged

(***************************************************************************)
(* The mutators of GraphicsState (graphics_state.rs) called on their own.  *)
(* GraphicsState is a public struct with public fields: the value a setter *)
(* is called on is an input, and a behaviour is a sequence of calls on it. *)
(***************************************************************************)
\* the per-call alphas and the base alphas explored: 0, a fraction and 1.0
Alphas == {0, Grid \div 2, One}

\* the colors passed to the color setters
Fills == {Black, Solid(One, 0, 0)}

\* the GraphicsState values the setters are first called on: the literal of
\* RenderState::new with either paint handle resolved or not, and a base
\* alpha on either side
GraphicsStates ==
    {[GraphicsStateNew(Identity) EXCEPT !.fill_paint = fp, !.stroke_paint = sp,
                                        !.fill_alpha = fa, !.stroke_alpha = sa] :
        fp \in {None, Some(1)}, sp \in {None, Some(2)},
        fa \in Alphas \ {0}, sa \in Alphas \ {0}}

InitState ==
    /\ graphics_state \in GraphicsStates
    /\ text_state = TextStateNew
    /\ current_outline = <<>>
    /\ current_contour = EmptyContour
    /\ stack = <<>>
    /\ plotter = <<>>
    /\ allow_error_in_option = FALSE
    /\ i = 0
    /\ result = "running"
    /\ error = NoError
    /\ last = [op |-> "none"]
    /\ before = <<graphics_state, TextStateNew>>
    /\ saved = <<>>
    /\ path_ops = <<>>
    /\ draw_ops = 0

\* a call graphics_state.set_fill_color(fill)
SetFillColor(fill) ==
    /\ More
    /\ graphics_state' = set_fill_color(graphics_state, fill)
    /\ Took([op |-> "set_fill_color", fill |-> fill])
    /\ GraphicsOnly
    /\ PathUnchanged

\* a call graphics_state.set_stroke_color(fill)
SetStrokeColor(fill) ==
    /\ More
    /\ graphics_state' = set_stroke_color(graphics_state, fill)
    /\ Took([op |-> "set_stroke_color", fill |-> fill])
    /\ GraphicsOnly
    /\ PathUnchanged

\* a call graphics_state.set_fill_alpha(alpha)
SetFillAlpha(alpha) ==
    /\ More
    /\ Exact(graphics_state.fill_alpha, alpha)
    /\ graphics_state' = set_fill_alpha(graphics_state, alpha)
    /\ Took([op |-> "set_fill_alpha", alpha |-> alpha])
    /\ GraphicsOnly
    /\ PathUnchanged

\* a call graphics_state.set_stroke_alpha(alpha)
SetStrokeAlpha(alpha) ==
    /\ More
    /\ Exact(graphics_state.stroke_alpha, alpha)
    /\ graphics_state' = set_stroke_alpha(graphics_state, alpha)
    /\ Took([op |-> "set_stroke_alpha", alpha |-> alpha])
    /\ GraphicsOnly
    /\ PathUnchanged

\* calls of the four setters in any order
NextState ==
    \/ \E fill \in Fills : SetFillColor(fill)
    \/ \E fill \in Fills : SetStrokeColor(fill)
    \/ \E alpha \in Alphas : SetFillAlpha(alpha)
    \/ \E alpha \in Alphas : SetStrokeAlpha(alpha)

SpecState == InitState /\ [][NextState]_vars

(***************************************************************************)
(* The streams explored.  Each specification renders every stream, of at   *)
(* most MaxOps operators, over one alphabet of operators and operands.     *)
(***************************************************************************)
Points == {<<0, 0>>, <<1, 2>>}
Windings == {"NonZero", "EvenOdd"}
Matrices == {<<2, 0, 0, 2, 0, 0>>, <<1, 0, 0, 1, 1, 0>>}
TheRect == [x |-> 0, y |-> 0, width |-> 2, height |-> 1]

\* graphics and text state operators with save/restore and drawing
Next ==
    \/ Save
    \/ Restore
    \/ \E m \in Matrices : Transform(m)
    \/ LineWidth(3 * One)
    \/ FillColor(Rgb(One, 0, 0))
    \/ StrokeColor(Gray(One))
    \/ FillColorSpace("DeviceCMYK")
    \/ StrokeColorSpace("CsCalGray")
    \/ SetTextMatrix(<<1, 0, 0, 1, 0, 5>>)
    \/ Leading(2)
    \/ TextNewline
    \/ TextRise(1)
    \/ Rect(TheRect)
    \/ Fill("NonZero")
    \/ Stroke
    \/ EndOfStream

Spec == Init /\ [][Next]_vars

\* path construction and drawing operators with save/restore
NextPath ==
    \/ \E p \in Points : MoveTo(p)
    \/ \E p \in Points : LineTo(p)
    \/ CurveTo(<<0, 1>>, <<1, 1>>, <<2, 0>>)
    \/ Close
    \/ Rect(TheRect)
    \/ EndPath
    \/ \E w \in Windings : Fill(w)
    \/ Stroke
    \/ FillAndStroke("EvenOdd")
    \/ Save
    \/ Restore
    \/ Skipped("Clip")
    \/ EndOfStream

SpecPath == Init /\ [][NextPath]_vars

\* the table's ICC spaces, and its Separation and DeviceN spaces
IccNames == {"CsIccGray", "CsIccNone", "CsIccIcc", "CsIccSep", "CsIccNamed"}
TintNames == {"CsSepGray", "CsSepRGB", "CsSepCMYK", "CsSepIcc", "CsSepIccIcc",
              "CsDevN", "CsDevNCal", "CsDevNGray", "CsDevNCMYK", "CsDevNShort"}

\* the names a color-space operator may carry: built in, in the table (one
\* space of each shape), in neither
SpaceNames == {"DeviceGray", "DeviceRGB", "DeviceCMYK", "Pattern"}
                 \cup (DOMAIN ColorSpaces
                         \ {"CsIccSep", "CsIccNamed", "CsSepIccIcc",
                            "CsDevNGray", "CsDevNCMYK", "CsDevNShort",
                            "CsNamedIcc", "CsNamedSep"})
                 \cup {"Absent"}

\* color operands: of every arity from 0 to 4, numbers, indices and pattern names
Colors ==
    {Gray(One), Rgb(One, 0, 0), Cmyk(One, 0, 0, 0),
     Other(<<>>),
     Other(<<Number(One)>>),
     Other(<<Integer(0)>>),
     Other(<<Integer(1)>>),
     Other(<<Integer(2)>>),
     Other(<<Integer(0 - 1)>>),
     Other(<<Name("P1")>>),
     Other(<<Name("P2")>>),
     Other(<<Number(One), Number(0)>>),
     Other(<<Number(0), Number(One), Number(0)>>),
     Other(<<Number(0), Number(0), Number(0), Number(One)>>)}

\* color and color-space operators, in strict and in lenient mode
NextColor ==
    \/ \E name \in SpaceNames : FillColorSpace(name)
    \/ \E color \in Colors : FillColor(color)
    \/ \E name \in {"Pattern", "Absent"} : StrokeColorSpace(name)
    \/ \E color \in {Gray(One), Other(<<Name("P1")>>)} : StrokeColor(color)
    \/ Fill("NonZero")
    \/ Restore
    \/ EndOfStream

SpecColor == Init /\ [][NextColor]_vars

\* operands of every count from 0 to 4, and one that is no number
TintColors ==
    {Other(<<>>),
     Other(<<Number(1)>>),
     Other(<<Number(One)>>),
     Other(<<Name("P1")>>),
     Other(<<Number(One), Number(0)>>),
     Other(<<Number(0), Number(One), Number(0)>>),
     Other(<<Number(0), Number(0), Number(0), Number(One)>>)}

\* color operators over ICC, Separation and DeviceN spaces, strict and lenient
NextTint ==
    \/ \E name \in IccNames \cup TintNames : FillColorSpace(name)
    \/ \E color \in TintColors : FillColor(color)
    \/ StrokeColorSpace("CsIccNone")
    \/ StrokeColor(Other(<<Number(0), Number(One), Number(0)>>))
    \/ EndOfStream

SpecTint == Init /\ [][NextTint]_vars

\* color operators over the Indexed spaces of the table, and a drawing operator
NextIndexed ==
    \/ \E name \in {"CsIdxRGB", "CsIdxCMYK", "CsIdxGray", "DeviceGray"} :
          FillColorSpace(name)
    \/ \E k \in (0 - 1)..2 : FillColor(Other(<<Integer(k)>>))
    \/ \E color \in {Other(<<>>), Other(<<Number(One)>>)} : FillColor(color)
    \/ StrokeColorSpace("CsIdxRGB")
    \/ \E k \in 0..1 : StrokeColor(Other(<<Integer(k)>>))
    \/ Rect(TheRect)
    \/ FillAndStroke("NonZero")
    \/ EndOfStream

SpecIndexed == Init /\ [][NextIndexed]_vars

\* every operator with an empty arm, among operators that build up a state
NextSkipped ==
    \/ \E op \in SkippedOps : Skipped(op)
    \/ LineTo(<<1, 2>>)
    \/ Rect(TheRect)
    \/ Save
    \/ Restore
    \/ LineWidth(3 * One)
    \/ FillColor(Rgb(One, 0, 0))
    \/ Leading(3)
    \/ Stroke
    \/ FillAndStroke("EvenOdd")
    \/ EndOfStream

SpecSkipped == Init /\ [][NextSkipped]_vars

\* line and scaling operators of text, over a graphics state and a path
NextLine ==
    \/ \E l \in {0, 3} : Leading(l)
    \/ TextNewline
    \/ \E v \in {<<0, 0 - 3>>, <<1, 2>>} : MoveTextPosition(v)
    \/ SetTextMatrix(<<2, 0, 0, 2, 0, 0>>)
    \/ \E h \in {100, 200} : TextScaling(h)
    \/ Save
    \/ Restore
    \/ LineTo(<<1, 2>>)
    \/ LineWidth(3 * One)
    \/ EndOfStream

SpecLine == Init /\ [][NextLine]_vars

\* the table's Named spaces: to a Cal space, an ICC space, a Separation
\* space, a Named space, and to no entry
NamedNames == {"CsNamed", "CsNamedIcc", "CsNamedSep", "CsNamed2", "CsNamedX"}

\* color operators over Named spaces and the spaces they name
NextNamed ==
    \/ \E name \in NamedNames \cup {"CsCalGray", "CsIccGray", "CsSepGray"} :
          FillColorSpace(name)
    \/ \E color \in TintColors : FillColor(color)
    \/ StrokeColorSpace("CsNamedIcc")
    \/ StrokeColor(Other(<<Number(One)>>))
    \/ EndOfStream

SpecNamed == Init /\ [][NextNamed]_vars

\* drawing operators over the state their draw calls carry
NextDraw ==
    \/ FillColorSpace("DeviceRGB")
    \/ FillColor(Rgb(One, 0, 0))
    \/ StrokeColor(Gray(One))
    \/ LineWidth(3 * One)
    \/ Transform(<<2, 0, 0, 2, 1, 0>>)
    \/ Rect(TheRect)
    \/ \E w \in Windings : Fill(w)
    \/ Stroke
    \/ \E w \in Windings : FillAndStroke(w)
    \/ EndOfStream

SpecDraw == Init /\ [][NextDraw]_vars

\* path and drawing operators with save/restore, for the loop as a whole
NextLoop ==
    \/ \E p \in Points : MoveTo(p)
    \/ LineTo(<<1, 2>>)
    \/ Rect(TheRect)
    \/ \E w \in Windings : Fill(w)
    \/ Stroke
    \/ Save
    \/ Restore
    \/ EndOfStream

\* the for loop of render has no suspension point: while operators are left
\* the next one is handled, and when none is left render returns
SpecLoop == Init /\ [][NextLoop]_vars /\ WF_vars(NextLoop)

\* text positioning operators with save/restore
NextText ==
    \/ BeginText
    \/ \E m \in Matrices : SetTextMatrix(m)
    \/ \E v \in Points : MoveTextPosition(v)
    \/ Leading(3)
    \/ TextNewline
    \/ Save
    \/ Restore
    \/ EndOfStream

SpecText == Init /\ [][NextText]_vars

\* the channel values of the CMYK operands explored: 0 to 1.0 on the grid
Channels == 0..Grid

\* the CMYK operands without ink, with black only and with cyan only
CmykCorners == {Cmyk(0, 0, 0, 0), Cmyk(0, 0, 0, One), Cmyk(One, 0, 0, 0)}

\* FillColor with a CMYK operand: the first operator of the stream takes
\* every tuple over the grid, the later ones the corner tuples
NextCmyk ==
    \/ /\ i = 0
       /\ \E c \in Channels, m \in Channels, y \in Channels, k \in Channels :
             FillColor(Cmyk(c, m, y, k))
    \/ /\ i > 0
       /\ \E color \in CmykCorners : FillColor(color)
    \/ Fill("NonZero")
    \/ EndOfStream

SpecCmyk == Init /\ [][NextCmyk]_vars

(***************************************************************************)
(* Properties.                                                             *)
(***************************************************************************)
\* the step handles an operator: it is taken, or render ends in it abnormally
Handled == i' = i + 1 \/ (result = "running" /\ result' \in {"err", "panic"})

\* the step handles an operator of kind k
HandledOp(k) == Handled /\ last'.op = k

HandledDrawing == Handled /\ last'.op \in DrawingOps

\* the step handles a FillColor or StrokeColor operator
HandledColor == Handled /\ last'.op \in {"FillColor", "StrokeColor"}

\* the step handles a FillColorSpace or StrokeColorSpace operator
HandledColorSpace == Handled /\ last'.op \in {"FillColorSpace", "StrokeColorSpace"}

\* the side a color operator works on
SideSpace(g, op) ==
    IF op.op \in {"FillColor", "FillColorSpace"}
    THEN g.fill_color_space ELSE g.stroke_color_space
SideColor(g, op) ==
    IF op.op \in {"FillColor", "FillColorSpace"} THEN g.fill_color ELSE g.stroke_color
SideMode(g, op) ==
    IF op.op \in {"FillColor", "FillColorSpace"} THEN blend_mode_fill(g) ELSE blend_mode_stroke(g)

\* what the resolver makes of color operator op in graphics state g
Resolution(g, op) == convert_color2(SideSpace(g, op), op.color, SideMode(g, op))

\* C1: a Restore that succeeds makes the graphics state and the text state
\* the values they had when the matching Save was handled.
C1_RestoreReturnsSavedState ==
    [][(HandledOp("Restore") /\ result' = "running")
          => /\ saved # <<>>
             /\ graphics_state' = saved[Len(saved)][1]
             /\ text_state' = saved[Len(saved)][2]]_vars

\* a Restore undid changes of both states made after its Save
C1_Witness ==
    /\ last.op = "Restore"
    /\ result = "running"
    /\ before[1] # graphics_state
    /\ before[2] # text_state

\* C2: a Restore handled with an empty stack ends render with an error,
\* changes neither state, emits no draw call, and no operator follows it.
C2_RestoreOnEmptyStackFails ==
    [][/\ result = "running"
       /\ (HandledOp("Restore") /\ stack = <<>>)
             => /\ result' = "err"
                /\ error' = OtherError("graphcs stack is empty")
                /\ UNCHANGED <<graphics_state, text_state, plotter, stack>>]_vars

\* render ended at a Restore with nothing saved, after state changes and a draw
C2_Witness ==
    /\ result = "err"
    /\ last.op = "Restore"
    /\ stack = <<>>
    /\ plotter # <<>>
    /\ graphics_state # GraphicsStateNew(Identity)
    /\ text_state # TextStateNew

\* the error operator op returns in graphics state g with stack s, if it does
OpError(g, s, op) ==
    CASE op.op \in {"FillColor", "StrokeColor"} ->
            IF Resolution(g, op).res = "err" THEN Resolution(g, op).err ELSE NoError
      [] op.op \in {"FillColorSpace", "StrokeColorSpace"} -> color_space(op.name).err
      [] op.op = "Restore" ->
            IF s = <<>> THEN OtherError("graphcs stack is empty") ELSE NoError
      [] OTHER -> NoError

\* C3: in strict mode an operator that fails with an error ends render with
\* that error; the plotter holds the draw calls of the drawing operators
\* before it, one each, and nothing is handled or drawn after it.
C3_StrictErrorStopsRender ==
    [][/\ result = "running"
       /\ (~allow_error_in_option /\ Handled
              /\ OpError(graphics_state, stack, last') # NoError)
             => /\ result' = "err"
                /\ error' \in {OpError(graphics_state, stack, last'),
                               TryError(OpError(graphics_state, stack, last'))}
                /\ plotter' = plotter
                /\ Len(plotter') = draw_ops']_vars

\* strict mode: a color operator failed after a draw call had been emitted
C3_Witness ==
    /\ ~allow_error_in_option
    /\ result = "err"
    /\ last.op = "FillColor"
    /\ error.kind = "Try"
    /\ Len(plotter) = 1

\* C4: in lenient mode a FillColor/StrokeColor whose operands cannot be
\* resolved, for whatever reason, sets that color to black and render goes on.
C4_LenientColorFailureGivesBlack ==
    [][(allow_error_in_option /\ HandledColor
              /\ Resolution(graphics_state, last').res # "ok")
          => /\ result' = "running"
             /\ i' = i + 1
             /\ SideColor(graphics_state', last') = Black]_vars

\* C5: in lenient mode a FillColorSpace/StrokeColorSpace with an unknown name
\* does not end render: black is substituted and the next operator is taken.
C5_LenientUnknownSpaceContinues ==
    [][(allow_error_in_option /\ HandledColorSpace
              /\ color_space(last'.name).res = "err")
          => /\ result' = "running"
             /\ i' = i + 1
             /\ SideColor(graphics_state', last') = Black]_vars

\* the space the operands of a color operator are read against, when selected
Selected(g, op) == SelectSpace(SideSpace(g, op), op.color.args)

\* a space the resolver does not support
Unsupported(cs, args) ==
    \/ cs.tag \in {"Other", "Named"}
    \/ cs.tag = "Indexed" /\ cs.base.tag \notin {"DeviceRGB", "DeviceCMYK"}
    \/ cs.tag = "DeviceN"
          /\ (IF cs.alt.tag = "Icc" THEN cs.alt.alternate ELSE cs.alt).tag
                \notin {"DeviceGray", "DeviceRGB", "DeviceCMYK"}
    \/ cs.tag = "Separation"
          /\ (IF cs.alt.tag = "Icc" THEN cs.alt.alternate ELSE cs.alt).tag
                \notin {"DeviceGray", "DeviceRGB", "DeviceCMYK"}
    \/ cs.tag = "Pattern" /\ Len(args) = 1 /\ args[1].t = "Name"
          /\ args[1].name \notin DOMAIN Patterns

\* C6: operands resolved against an unsupported space give an error value of
\* the resolver, and render never ends abnormally.
C6_UnsupportedSpaceIsAnError ==
    /\ [](result # "panic")
    /\ [][(HandledColor /\ last'.color.tag = "Other"
              /\ Selected(graphics_state, last').res = "ok"
              /\ Unsupported(Selected(graphics_state, last').cs, last'.color.args))
             => Resolution(graphics_state, last').res = "err"]_vars

\* the number of operands a space requires (0: the space takes no operands)
RequiredArgs(cs) ==
    CASE cs.tag \in {"DeviceGray", "CalGray", "Separation", "Indexed", "Pattern"} -> 1
      [] cs.tag \in {"DeviceRGB", "CalRGB"} -> 3
      [] cs.tag \in {"DeviceCMYK", "CalCMYK"} -> 4
      [] cs.tag = "DeviceN" -> cs.tint.input_dim
      [] OTHER -> 0

\* C7: a color operator with Other(args) whose operand count is not the one
\* the active space requires is reported as an error of the resolver.
C7_WrongOperandCountIsAnError ==
    [][(HandledColor /\ last'.color.tag = "Other"
              /\ Selected(graphics_state, last').res = "ok"
              /\ RequiredArgs(Selected(graphics_state, last').cs) # 0
              /\ Len(last'.color.args) # RequiredArgs(Selected(graphics_state, last').cs))
          => Resolution(graphics_state, last').res = "err"]_vars

\* the channels of the base of an Indexed space
BaseChannels(cs) == IF cs.base.tag = "DeviceRGB" THEN 3 ELSE 4

\* index idx is not a valid index of the palette of cs
BadIndex(cs, idx) ==
    \/ idx < 0
    \/ idx > cs.hival
    \/ BaseChannels(cs) * idx + BaseChannels(cs) > Len(cs.lut)

\* C8: an Indexed color whose index is negative, above hival or outside the
\* lookup table is reported as an error of the resolver.
C8_BadPaletteIndexIsAnError ==
    [][(HandledColor /\ last'.color.tag = "Other"
              /\ Selected(graphics_state, last').res = "ok"
              /\ Selected(graphics_state, last').cs.tag = "Indexed"
              /\ Selected(graphics_state, last').cs.base.tag \in {"DeviceRGB", "DeviceCMYK"}
              /\ Len(last'.color.args) = 1
              /\ last'.color.args[1].t = "Integer"
              /\ BadIndex(Selected(graphics_state, last').cs, last'.color.args[1].v))
          => Resolution(graphics_state, last').res = "err"]_vars

\* C9: every drawing operator handled adds exactly one draw call and leaves
\* the outline and the current subpath empty; no other step adds one; so
\* there are as many draw calls as drawing operators handled.
C9_OneDrawCallPerDrawingOperator ==
    /\ [](Len(plotter) = draw_ops)
    /\ [][IF HandledDrawing
          THEN /\ Len(plotter') = Len(plotter) + 1
               /\ SubSeq(plotter', 1, Len(plotter)) = plotter
               /\ current_outline' = <<>>
               /\ ContourIsEmpty(current_contour')
          ELSE plotter' = plotter]_vars

\* a drawing operator right after another one handed over an empty outline
C9_Witness ==
    /\ last.op \in DrawingOps
    /\ Len(plotter) = 2
    /\ plotter[1].outline # <<>>
    /\ plotter[2].outline = <<>>
    /\ draw_ops = 2

\* The subpaths the path operators ops build.  A MoveTo starts a subpath,
\* LineTo/CurveTo extend the open one, Close marks it, Rect ends the open one
\* and adds a rectangle.  A LineTo/CurveTo met while no subpath is open
\* starts one when orphan is TRUE and is left out when orphan is FALSE.
RECURSIVE Subpaths(_, _, _, _)
Subpaths(ops, done, cur, orphan) ==
    LET flushed == IF cur.points = <<>> THEN done ELSE Append(done, cur)
    IN  IF ops = <<>> THEN flushed
        ELSE
          LET o == Head(ops)
              rest == Tail(ops)
              skip == cur.points = <<>> /\ ~orphan
          IN  CASE o.op = "MoveTo" ->
                      Subpaths(rest, flushed,
                               [points |-> <<Endpoint(o.p)>>, closed |-> FALSE], orphan)
                [] o.op = "LineTo" ->
                      Subpaths(rest, done,
                               IF skip THEN cur
                               ELSE [cur EXCEPT !.points = Append(@, Endpoint(o.p))],
                               orphan)
                [] o.op = "CurveTo" ->
                      Subpaths(rest, done,
                               IF skip THEN cur
                               ELSE [cur EXCEPT !.points =
                                        @ \o << [p |-> o.c1, flag |-> "control0"],
                                                [p |-> o.c2, flag |-> "control1"],
                                                Endpoint(o.p) >>],
                               orphan)
                [] o.op = "Close" ->
                      Subpaths(rest, done,
                               IF cur.points = <<>> THEN cur
                               ELSE [cur EXCEPT !.closed = TRUE],
                               orphan)
                [] o.op = "Rect" ->
                      Subpaths(rest, Append(flushed, ContourFromRect(o.rect)),
                               EmptyContour, orphan)

\* outline holds the subpaths want, point for point and in order, and marks
\* closed every subpath a Close was handled for
HoldsSubpaths(outline, want) ==
    /\ Len(outline) = Len(want)
    /\ \A k \in 1..Len(want) :
          /\ outline[k].points = want[k].points
          /\ want[k].closed => outline[k].closed

\* C10 as claimed: the outline of a draw call holds one subpath per MoveTo
\* (its point and the segments up to the next MoveTo, Rect or drawing
\* operator) and one closed rectangle per Rect, and nothing else.
C10_OutlineIsOnePerMoveToAndRect ==
    [][HandledDrawing
          => HoldsSubpaths(plotter'[Len(plotter')].outline,
                           Subpaths(path_ops, <<>>, EmptyContour, FALSE))]_vars

\* C10 as amended: as claimed, and a LineTo/CurveTo handled while the current
\* subpath is empty starts a subpath of its own.
C10_OutlineIsTheSubpathsBuilt ==
    [][HandledDrawing
          => HoldsSubpaths(plotter'[Len(plotter')].outline,
                           Subpaths(path_ops, <<>>, EmptyContour, TRUE))]_vars

\* MoveTo p1, LineTo p2, Close, Fill: one closed subpath with the two points
C10_Witness ==
    /\ last.op = "Fill"
    /\ Len(plotter) = 1
    /\ plotter[1].outline =
          << [points |-> <<Endpoint(<<0, 0>>), Endpoint(<<1, 2>>)>>, closed |-> TRUE] >>

(***************************************************************************)
(* Draw calls and the state they carry.                                    *)
(***************************************************************************)
\* the draw call a drawing step hands to the plotter
NewCall == plotter'[Len(plotter')]

\* the state of the stream FillColorSpace(DeviceRGB), FillColor(Rgb(1,0,0)),
\* Rect before its Fill: red fill color on a fresh state, one rectangle built
RedRectBuilt ==
    /\ graphics_state = [GraphicsStateNew(Identity) EXCEPT !.fill_color = Solid(One, 0, 0)]
    /\ path_ops = << [op |-> "Rect", rect |-> TheRect] >>
    /\ plotter = <<>>

\* the one draw call of that stream
RedRectCall ==
    [outline |-> << ContourFromRect(TheRect) >>,
     mode |-> [kind |-> "Fill",
               fill |-> [color |-> Solid(One, 0, 0), alpha |-> One, mode |-> "Overlay"]],
     fill_rule |-> "Winding",
     transform |-> Identity,
     clip |-> None]

\* C11: the draw call of a drawing operator carries the transform and the
\* clip reference of the graphics state at that operator; a Fill carries the
\* fill color and effective fill alpha, a Stroke the stroke color, effective
\* stroke alpha, line width and dash pattern, a FillAndStroke both; and
\* Fill(NonZero) after FillColorSpace(DeviceRGB), FillColor(Rgb(1,0,0)), Rect
\* on a fresh state leaves exactly the one call RedRectCall.
C11_DrawCallCarriesState ==
    [][HandledDrawing =>
          /\ NewCall.transform = graphics_state.transform
          /\ NewCall.clip = graphics_state.clip_path_id
          /\ NewCall.mode.kind =
                (CASE last'.op = "Fill" -> "Fill"
                   [] last'.op = "Stroke" -> "Stroke"
                   [] last'.op = "FillAndStroke" -> "FillStroke")
          /\ last'.op \in {"Fill", "FillAndStroke"} =>
                /\ NewCall.mode.fill.color = graphics_state.fill_color
                /\ NewCall.mode.fill.alpha = graphics_state.fill_color_alpha
          /\ last'.op \in {"Stroke", "FillAndStroke"} =>
                /\ NewCall.mode.stroke.color = graphics_state.stroke_color
                /\ NewCall.mode.stroke.alpha = graphics_state.stroke_color_alpha
                /\ NewCall.mode.stroke_mode.style.line_width =
                      graphics_state.stroke_style.line_width
                /\ NewCall.mode.stroke_mode.dash_pattern = graphics_state.dash_pattern
          /\ (last' = [op |-> "Fill", winding |-> "NonZero"] /\ RedRectBuilt)
                => plotter' = << RedRectCall >>]_vars

\* the four-operator stream was rendered: its Fill found the red rectangle
\* built and nothing drawn, and the plotter holds the one call
C11_Witness ==
    /\ i = 4
    /\ last = [op |-> "Fill", winding |-> "NonZero"]
    /\ before[1] = [GraphicsStateNew(Identity) EXCEPT !.fill_color = Solid(One, 0, 0)]
    /\ plotter = << RedRectCall >>

(***************************************************************************)
(* The setters of GraphicsState.                                           *)
(***************************************************************************)
\* C12: set_fill_color(fill) stores fill; it leaves the fill paint handle as
\* it was when fill equals the stored color by value and makes it None when
\* it differs; it touches neither the stroke color nor the stroke handle;
\* set_stroke_color does the same with the two sides exchanged.
C12_ColorSetterClearsHandleOnChange ==
    [][/\ HandledOp("set_fill_color") =>
             /\ graphics_state'.fill_color = last'.fill
             /\ graphics_state'.fill_paint =
                   IF last'.fill = graphics_state.fill_color
                   THEN graphics_state.fill_paint ELSE None
             /\ graphics_state'.stroke_color = graphics_state.stroke_color
             /\ graphics_state'.stroke_paint = graphics_state.stroke_paint
       /\ HandledOp("set_stroke_color") =>
             /\ graphics_state'.stroke_color = last'.fill
             /\ graphics_state'.stroke_paint =
                   IF last'.fill = graphics_state.stroke_color
                   THEN graphics_state.stroke_paint ELSE None
             /\ graphics_state'.fill_color = graphics_state.fill_color
             /\ graphics_state'.fill_paint = graphics_state.fill_paint]_vars

\* set_fill_color was called with the stored color: the resolved fill handle
\* is still resolved, after a set_stroke_color that cleared the stroke handle
C12_Witness ==
    /\ last.op = "set_fill_color"
    /\ last.fill = before[1].fill_color
    /\ graphics_state.fill_paint = Some(1)
    /\ graphics_state.stroke_color # Black
    /\ graphics_state.stroke_paint = None

\* C13: set_fill_alpha(a) makes the effective fill alpha the base fill alpha
\* times a and leaves the base as it is, set_stroke_alpha(a) does the same on
\* the stroke side, and a second call with the same a changes nothing.
C13_AlphaIsBaseTimesFactor ==
    [][/\ HandledOp("set_fill_alpha") =>
             /\ graphics_state'.fill_color_alpha =
                   Mul(graphics_state.fill_alpha, last'.alpha)
             /\ graphics_state'.fill_alpha = graphics_state.fill_alpha
             /\ set_fill_alpha(graphics_state', last'.alpha) = graphics_state'
       /\ HandledOp("set_stroke_alpha") =>
             /\ graphics_state'.stroke_color_alpha =
                   Mul(graphics_state.stroke_alpha, last'.alpha)
             /\ graphics_state'.stroke_alpha = graphics_state.stroke_alpha
             /\ set_stroke_alpha(graphics_state', last'.alpha) = graphics_state']_vars

\* C14: set_fill_alpha makes the fill paint handle None exactly when the call
\* changes the stored effective fill alpha and leaves it as it was otherwise;
\* set_stroke_alpha does the same for the stroke handle and stroke alpha.
C14_AlphaSetterClearsHandleOnChange ==
    [][/\ HandledOp("set_fill_alpha") =>
             graphics_state'.fill_paint =
                IF graphics_state'.fill_color_alpha # graphics_state.fill_color_alpha
                THEN None ELSE graphics_state.fill_paint
       /\ HandledOp("set_stroke_alpha") =>
             graphics_state'.stroke_paint =
                IF graphics_state'.stroke_color_alpha # graphics_state.stroke_color_alpha
                THEN None ELSE graphics_state.stroke_paint]_vars

(***************************************************************************)
(* Color resolution and the active color spaces.                           *)
(***************************************************************************)
Min(a, b) == IF a < b THEN a ELSE b

\* R = 1 - min(1, C + K), G = 1 - min(1, M + K), B = 1 - min(1, Y + K)
CmykAsRgb(c, m, y, k) ==
    Solid(One - Min(One, c + k), One - Min(One, m + k), One - Min(One, y + k))

\* C15: a CMYK operand (c, m, y, k) over the grid resolves to
\* Solid(1 - min(1, c + k), 1 - min(1, m + k), 1 - min(1, y + k)), whatever
\* blend mode is passed in; (0,0,0,0) gives white, (0,0,0,1) black and
\* (1,0,0,0) gives Solid(0,1,1).
C15_CmykResolution ==
    /\ [](\A mode \in BlendModes :
            /\ cmyk2rgb(0, 0, 0, 0, mode) = Solid(One, One, One)
            /\ cmyk2rgb(0, 0, 0, One, mode) = Solid(0, 0, 0)
            /\ cmyk2rgb(One, 0, 0, 0, mode) = Solid(0, One, One))
    /\ [][(HandledOp("FillColor") /\ last'.color.tag = "Cmyk") =>
             LET c == last'.color.cyan
                 m == last'.color.magenta
                 y == last'.color.yellow
                 k == last'.color.key
             IN  /\ result' = "running"
                 /\ graphics_state'.fill_color = CmykAsRgb(c, m, y, k)
                 /\ \A mode \in BlendModes :
                       cmyk2rgb(c, m, y, k, mode) = CmykAsRgb(c, m, y, k)]_vars

\* a CMYK operand was resolved whose cyan and black add up to more than 1.0
\* (clamped to no red) while magenta and yellow with black stay below 1.0
C15_Witness ==
    /\ last = [op |-> "FillColor", color |-> Cmyk(One, 0, 0, 1)]
    /\ result = "running"
    /\ graphics_state.fill_color = Solid(0, One - 1, One - 1)
    /\ graphics_state.fill_color_space = DeviceCMYK

\* the space a bare color operand rebinds the active space to
DeviceSpaceOf(color) ==
    CASE color.tag = "Gray" -> DeviceGray
      [] color.tag = "Rgb" -> DeviceRGB
      [] color.tag = "Cmyk" -> DeviceCMYK

\* the color a bare color operand stands for
BareColor(color) ==
    CASE color.tag = "Gray" -> Solid(color.g, color.g, color.g)
      [] color.tag = "Rgb" -> Solid(color.red, color.green, color.blue)
      [] color.tag = "Cmyk" ->
            CmykAsRgb(color.cyan, color.magenta, color.yellow, color.key)

\* the color space of the side a color operator does not work on
OtherSideSpace(g, op) ==
    IF op.op \in {"FillColor", "FillColorSpace"}
    THEN g.stroke_color_space ELSE g.fill_color_space

\* C16: a FillColor/StrokeColor with a bare Gray, Rgb or Cmyk operand is
\* taken without error whatever the active space of its side is, sets the
\* color of its side to the operand's color, the active space of its side to
\* DeviceGray, DeviceRGB or DeviceCMYK, and leaves the other side's space.
C16_BareColorRebindsSpace ==
    [][(HandledColor /\ last'.color.tag \in {"Gray", "Rgb", "Cmyk"}) =>
          /\ result' = "running"
          /\ i' = i + 1
          /\ SideColor(graphics_state', last') = BareColor(last'.color)
          /\ SideSpace(graphics_state', last') = DeviceSpaceOf(last'.color)
          /\ OtherSideSpace(graphics_state', last') =
                OtherSideSpace(graphics_state, last')]_vars

\* a bare CMYK operand was taken with a Separation space active on the fill
\* side and the Pattern space on the stroke side
C16_Witness ==
    /\ last.op = "FillColor"
    /\ last.color.tag = "Cmyk"
    /\ before[1].fill_color_space.tag = "Separation"
    /\ graphics_state.fill_color_space = DeviceCMYK
    /\ graphics_state.fill_color = Solid(0, One, One)
    /\ graphics_state.stroke_color_space = PatternSpace

\* the space the operands of color operator op are interpreted against
UsedSpace(g, op) ==
    IF op.color.tag = "Other" THEN Selected(g, op).cs ELSE DeviceSpaceOf(op.color)

\* C17 as claimed: every successful resolution leaves the active space of
\* its side at the space the operands were interpreted against (for Other
\* operands the ICC alternate, the inferred device space, the Named target).
C17_ResolutionRebindsToUsedSpace ==
    [][(HandledColor /\ Resolution(graphics_state, last').res = "ok")
          => SideSpace(graphics_state', last') = UsedSpace(graphics_state, last')]_vars

\* C17 as amended: a successful resolution of a bare Gray, Rgb or Cmyk
\* operand leaves the active space of its side at DeviceGray, DeviceRGB or
\* DeviceCMYK; a color operator with Other operands leaves the active space
\* of its side as it was, whatever space the operands were read against.
C17_OnlyBareColorsRebind ==
    [][HandledColor =>
          IF last'.color.tag = "Other"
          THEN SideSpace(graphics_state', last') = SideSpace(graphics_state, last')
          ELSE Resolution(graphics_state, last').res = "ok"
                  => SideSpace(graphics_state', last') = DeviceSpaceOf(last'.color)]_vars

\* one operand was resolved to white against the DeviceGray alternate of an
\* ICC space, and the ICC space is still the active fill space
C17_Witness ==
    /\ last = [op |-> "FillColor", color |-> Other(<<Number(One)>>)]
    /\ result = "running"
    /\ before[1].fill_color_space = Icc(DeviceGray)
    /\ graphics_state.fill_color = Solid(One, One, One)
    /\ graphics_state.fill_color_space = Icc(DeviceGray)

\* the names color_space resolves: the four built in and the table's keys
Resolvable(name) ==
    name \in {"DeviceGray", "DeviceRGB", "DeviceCMYK", "Pattern"} \cup DOMAIN ColorSpaces

\* the space a resolvable name designates
Designated(name) ==
    CASE name = "DeviceGray" -> DeviceGray
      [] name = "DeviceRGB" -> DeviceRGB
      [] name = "DeviceCMYK" -> DeviceCMYK
      [] name = "Pattern" -> PatternSpace
      [] OTHER -> ColorSpaces[name]

\* C18: a FillColorSpace(name) with a resolvable name is taken, makes the
\* fill space the space name designates and the fill color black, makes the
\* fill paint handle None only if the color was not black, and changes
\* nothing else of the graphics state; StrokeColorSpace does the same on the
\* stroke side; with an unresolvable name render ends with an error and the
\* graphics state is as it was.
C18_ColorSpaceOperatorResetsColor ==
    [][HandledColorSpace =>
          IF Resolvable(last'.name)
          THEN /\ result' = "running"
               /\ i' = i + 1
               /\ graphics_state' =
                     IF last'.op = "FillColorSpace"
                     THEN [graphics_state EXCEPT
                             !.fill_color_space = Designated(last'.name),
                             !.fill_color = Black,
                             !.fill_paint =
                                IF graphics_state.fill_color = Black THEN @ ELSE None]
                     ELSE [graphics_state EXCEPT
                             !.stroke_color_space = Designated(last'.name),
                             !.stroke_color = Black,
                             !.stroke_paint =
                                IF graphics_state.stroke_color = Black THEN @ ELSE None]
          ELSE /\ result' = "err"
               /\ error'.kind = "Other"
               /\ graphics_state' = graphics_state]_vars

\* a FillColorSpace made an Indexed space active and reset a fill color that
\* was not black, with a stroke color that is not black left alone
C18_Witness ==
    /\ last.op = "FillColorSpace"
    /\ result = "running"
    /\ before[1].fill_color # Black
    /\ graphics_state.fill_color = Black
    /\ graphics_state.fill_color_space.tag = "Indexed"
    /\ graphics_state.stroke_color # Black

(***************************************************************************)
(* Blend modes and fill rules of the draw calls.                           *)
(***************************************************************************)
\* the blend mode of a side whose overprint flag is flag
ModeOfFlag(flag) == IF flag THEN "Darken" ELSE "Overlay"

\* the graphics state of RenderState::new with the overprint flags f and s
WithOverprint(f, s) ==
    [GraphicsStateNew(Identity) EXCEPT !.overprint_fill = f, !.overprint_stroke = s]

\* C19: blend_mode_fill is Darken exactly when overprint_fill is set and
\* blend_mode_stroke is Darken exactly when overprint_stroke is set, for each
\* of the four values of the two flags; and every draw call carries, on each
\* side it has, the mode of that side's flag in the graphics state at its
\* operator.
C19_BlendModeFollowsOverprint ==
    /\ [](\A f \in BOOLEAN, s \in BOOLEAN :
            /\ blend_mode_fill(WithOverprint(f, s)) = ModeOfFlag(f)
            /\ blend_mode_stroke(WithOverprint(f, s)) = ModeOfFlag(s))
    /\ [][HandledDrawing =>
             /\ last'.op \in {"Fill", "FillAndStroke"} =>
                   NewCall.mode.fill.mode = ModeOfFlag(graphics_state.overprint_fill)
             /\ last'.op \in {"Stroke", "FillAndStroke"} =>
                   NewCall.mode.stroke.mode = ModeOfFlag(graphics_state.overprint_stroke)]_vars

\* a FillAndStroke was handled after a Fill and a Stroke with neither flag
\* set: three draw calls, every side of them with the mode Overlay
C19_Witness ==
    /\ last.op = "FillAndStroke"
    /\ ~before[1].overprint_fill
    /\ ~before[1].overprint_stroke
    /\ Len(plotter) = 3
    /\ plotter[1].mode.kind = "Fill"
    /\ plotter[1].mode.fill.mode = "Overlay"
    /\ plotter[2].mode.kind = "Stroke"
    /\ plotter[2].mode.stroke.mode = "Overlay"
    /\ plotter[3].mode.fill.mode = "Overlay"
    /\ plotter[3].mode.stroke.mode = "Overlay"

\* the fill rule the operator of a drawing step declares
DeclaredRule(op) ==
    CASE op.op = "Stroke" -> "Winding"
      [] op.winding = "NonZero" -> "Winding"
      [] op.winding = "EvenOdd" -> "EvenOdd"

\* C20: the fill rule of a draw call is Winding for a Stroke and, for a Fill
\* or FillAndStroke, Winding when the operator says NonZero and EvenOdd when
\* it says EvenOdd, whatever the graphics state and the operators before it.
C20_FillRuleIsTheOperatorsOwn ==
    [][HandledDrawing => NewCall.fill_rule = DeclaredRule(last')]_vars

\* an even-odd FillAndStroke, then a Stroke, then a nonzero Fill, in a
\* graphics state that is not the initial one: three calls, three rules
C20_Witness ==
    /\ Len(plotter) = 3
    /\ last = [op |-> "Fill", winding |-> "NonZero"]
    /\ before[1] # GraphicsStateNew(Identity)
    /\ plotter[1].mode.kind = "FillStroke"
    /\ plotter[1].fill_rule = "EvenOdd"
    /\ plotter[2].mode.kind = "Stroke"
    /\ plotter[2].fill_rule = "Winding"
    /\ plotter[3].fill_rule = "Winding"

(***************************************************************************)
(* The current transform and the text matrices.                            *)
(***************************************************************************)
\* C21: a Transform(m) makes the current transform T * m and changes nothing
\* else; only Transform and Restore change the current transform, Restore to
\* the one of the matching Save; a draw call carries the current transform
\* and an outline whose points are the operands of the path operators as
\* they were given.
C21_TransformPostMultiplies ==
    [][/\ HandledOp("Transform") =>
             /\ graphics_state' =
                   [graphics_state EXCEPT
                      !.transform = Compose(graphics_state.transform, last'.matrix)]
             /\ UNCHANGED <<current_outline, current_contour, text_state, stack>>
       /\ (Handled /\ last'.op \notin {"Transform", "Restore"}) =>
             graphics_state'.transform = graphics_state.transform
       /\ (HandledOp("Restore") /\ result' = "running") =>
             graphics_state'.transform = saved[Len(saved)][1].transform
       /\ HandledDrawing =>
             /\ NewCall.transform = graphics_state.transform
             /\ HoldsSubpaths(NewCall.outline,
                              Subpaths(path_ops, <<>>, EmptyContour, TRUE))]_vars

\* scaling by 2, then translating by (1, 0), then Rect and Fill: the call
\* carries scale * translation, which moves by (2, 0) and is not
\* translation * scale, and the rectangle with its points as given
C21_Witness ==
    /\ i = 4
    /\ last.op = "Fill"
    /\ plotter[1].transform = <<2, 0, 0, 2, 2, 0>>
    /\ plotter[1].transform # Compose(<<1, 0, 0, 1, 1, 0>>, <<2, 0, 0, 2, 0, 0>>)
    /\ plotter[1].outline = << ContourFromRect(TheRect) >>

\* C22: the text matrix equals the line matrix in every state; BeginText
\* makes both the identity, SetTextMatrix(M) makes both M, MoveTextPosition(v)
\* makes both the line matrix before it times the translation by v; handled
\* after SetTextMatrix(M) it therefore leaves both at M * Translate(v).
C22_TextMatrixEqualsLineMatrix ==
    /\ [](text_state.text_matrix = text_state.line_matrix)
    /\ [][/\ HandledOp("BeginText") =>
                 /\ text_state'.text_matrix = Identity
                 /\ text_state'.line_matrix = Identity
          /\ HandledOp("SetTextMatrix") =>
                 /\ text_state'.text_matrix = last'.matrix
                 /\ text_state'.line_matrix = last'.matrix
          /\ HandledOp("MoveTextPosition") =>
                 /\ text_state'.text_matrix =
                       Compose(text_state.line_matrix, Translation(last'.translation))
                 /\ text_state'.line_matrix =
                       Compose(text_state.line_matrix, Translation(last'.translation))
          /\ (HandledOp("MoveTextPosition") /\ last.op = "SetTextMatrix") =>
                 /\ text_state'.text_matrix =
                       Compose(last.matrix, Translation(last'.translation))
                 /\ text_state'.line_matrix =
                       Compose(last.matrix, Translation(last'.translation))]_vars

\* BeginText, SetTextMatrix(scale by 2), MoveTextPosition((1, 2)): both
\* matrices are the scaling times the translation, which moves by (2, 4)
C22_Witness ==
    /\ i = 3
    /\ last = [op |-> "MoveTextPosition", translation |-> <<1, 2>>]
    /\ before[2].text_matrix = <<2, 0, 0, 2, 0, 0>>
    /\ before[2].line_matrix = <<2, 0, 0, 2, 0, 0>>
    /\ text_state.text_matrix = <<2, 0, 0, 2, 2, 4>>
    /\ text_state.line_matrix = <<2, 0, 0, 2, 2, 4>>

(***************************************************************************)
(* Rect, EndPath and Save on the path under construction.                  *)
(***************************************************************************)
\* the closed four-point contour of a rectangle operand
RectangleOf(r) ==
    [points |-> << Endpoint(<<r.x, r.y>>),
                   Endpoint(<<r.x + r.width, r.y>>),
                   Endpoint(<<r.x + r.width, r.y + r.height>>),
                   Endpoint(<<r.x, r.y + r.height>>) >>,
     closed |-> TRUE]

\* C25: Rect(r) appends a non-empty current subpath to the outline and leaves
\* the current subpath empty, then appends the closed rectangle of r to the
\* outline; it makes no draw call and leaves the states and the stack alone.
C25_RectFlushesThenAppends ==
    [][HandledOp("Rect") =>
          /\ ContourIsEmpty(current_contour')
          /\ current_outline' =
                Append(IF current_contour.points # <<>>
                       THEN Append(current_outline, current_contour)
                       ELSE current_outline,
                       RectangleOf(last'.rect))
          /\ UNCHANGED <<plotter, graphics_state, text_state, stack>>]_vars

\* MoveTo (0,0), LineTo (1,2), Rect: the pending subpath is the first contour
\* of the outline, the rectangle the second, and no subpath is pending
C25_Witness ==
    /\ i = 3
    /\ last.op = "Rect"
    /\ current_contour = EmptyContour
    /\ current_outline =
          << [points |-> <<Endpoint(<<0, 0>>), Endpoint(<<1, 2>>)>>, closed |-> FALSE],
             RectangleOf(TheRect) >>

\* C26: EndPath leaves the current subpath and the outline empty, makes no
\* draw call and leaves the graphics state, the text state and the stack as
\* they were; a drawing operator handled directly after an EndPath hands the
\* plotter an empty outline.
C26_EndPathDiscards ==
    [][/\ HandledOp("EndPath") =>
             /\ ContourIsEmpty(current_contour')
             /\ current_outline' = <<>>
             /\ UNCHANGED <<plotter, graphics_state, text_state, stack>>
       /\ (HandledDrawing /\ last.op = "EndPath") =>
             /\ Len(plotter') = Len(plotter) + 1
             /\ NewCall.outline = <<>>]_vars

\* an EndPath handled as the third operator, inside a Save level: nothing is
\* pending, nothing was drawn and the saved state is still on the stack
C26_Witness ==
    /\ i = 3
    /\ last.op = "EndPath"
    /\ current_contour = EmptyContour
    /\ current_outline = <<>>
    /\ plotter = <<>>
    /\ Len(stack) = 1

\* C27 as claimed: Save flushes: after it the current subpath is empty and a
\* subpath that was pending is in the outline.
C27_SaveFlushes ==
    [][HandledOp("Save") =>
          /\ ContourIsEmpty(current_contour')
          /\ current_outline' =
                (IF current_contour.points # <<>>
                 THEN Append(current_outline, current_contour)
                 ELSE current_outline)]_vars

\* C27 as amended: Save leaves the current subpath and the outline as they
\* are and makes no draw call, so a LineTo handled after it extends the
\* subpath that was pending before the Save.
C27_SaveLeavesPathAlone ==
    [][/\ HandledOp("Save") =>
             UNCHANGED <<current_contour, current_outline, plotter>>
       /\ (HandledOp("LineTo") /\ last.op = "Save") =>
             /\ current_outline' = current_outline
             /\ current_contour'.points =
                   Append(current_contour.points, Endpoint(last'.p))]_vars

\* MoveTo a, LineTo b, Save, LineTo c: one pending subpath of three points
\* and an outline still empty
C27_Witness ==
    /\ i = 4
    /\ last.op = "LineTo"
    /\ Len(stack) = 1
    /\ Len(current_contour.points) = 3
    /\ current_outline = <<>>

(***************************************************************************)
(* The loop of render and the kinds of its errors.                         *)
(***************************************************************************)
\* C23: every step of render handles the next operator of the stream or
\* ends render; nothing happens after render has ended; render returns Ok
\* only out of the loop, with no error, and it does end; draw calls are only
\* appended, one per drawing operator and made from that operator, so the
\* k-th call is the one of the k-th drawing operator.
C23_OperatorsInOrderOnce ==
    /\ [][/\ result = "running"
          /\ \/ i' = i + 1 /\ result' = "running"
             \/ i' = i /\ result' # "running"
          /\ result' = "ok" => (error' = NoError /\ plotter' = plotter)
          /\ SubSeq(plotter', 1, Len(plotter)) = plotter
          /\ IF HandledDrawing
             THEN /\ Len(plotter') = Len(plotter) + 1
                  /\ draw_ops' = draw_ops + 1
                  /\ NewCall.mode.kind = last'.op
                  /\ last'.op = "Fill" => NewCall.fill_rule = CvtWinding(last'.winding)
                  /\ NewCall.transform = graphics_state.transform
             ELSE plotter' = plotter /\ draw_ops' = draw_ops]_vars
    /\ [](Len(plotter) = draw_ops)
    /\ [](i <= MaxOps)
    /\ <>(result # "running")

\* Rect, Fill(EvenOdd), Rect, Stroke and the end of the stream: render
\* returned Ok with the Fill's call first and the Stroke's call second
C23_Witness ==
    /\ result = "ok"
    /\ i = 4
    /\ draw_ops = 2
    /\ Len(plotter) = 2
    /\ plotter[1].mode.kind = "Fill"
    /\ plotter[1].fill_rule = "EvenOdd"
    /\ plotter[2].mode.kind = "Stroke"

\* C24: an error render returns for an operator other than Restore (a color
\* or color-space operator) is not of the kind of the error it returns for
\* Restore on an empty stack.
C24_RestoreErrorKindIsDistinct ==
    (result = "err" /\ last.op # "Restore")
       => error.kind # OtherError("graphcs stack is empty").kind

(***************************************************************************)
(* ICC, DeviceN and Separation spaces.                                     *)
(***************************************************************************)
\* the step ends as a color operator does whose resolution gave r
StepOutcomeIs(r) ==
    CASE r.res = "ok" ->
            /\ result' = "running"
            /\ SideColor(graphics_state', last') = r.fill
      [] r.res = "err" ->
            IF allow_error_in_option
            THEN result' = "running" /\ SideColor(graphics_state', last') = Black
            ELSE result' = "err" /\ error' = TryError(r.err)
      [] r.res = "panic" -> result' = "panic"

\* the step ends as a color operator does whose resolution failed with an error
StepIsError ==
    IF allow_error_in_option
    THEN result' = "running" /\ SideColor(graphics_state', last') = Black
    ELSE result' = "err"

\* what the resolver makes of the operands of op with cs as the active space
AsActive(cs, g, op) == convert_color2(cs, op.color, SideMode(g, op))

\* the step handles a color operator with Other operands in a space tagged t
HandledOtherIn(t) ==
    /\ HandledColor
    /\ last'.color.tag = "Other"
    /\ SideSpace(graphics_state, last').tag = t

\* C28 as claimed: Other operands in an ICC space with an alternate resolve
\* as they do with the alternate as the active space, whatever its tag;
\* without an alternate 3 operands resolve as in DeviceRGB, 4 as in
\* DeviceCMYK, and any other count fails with 'ICC profile without alternate'.
C28_IccResolvesAsItsAlternate ==
    [][HandledOtherIn("Icc") =>
          LET cs == SideSpace(graphics_state, last')
              n == Len(last'.color.args)
          IN  IF cs.alternate # None
              THEN StepOutcomeIs(AsActive(cs.alternate, graphics_state, last'))
              ELSE IF n = 3 THEN StepOutcomeIs(AsActive(DeviceRGB, graphics_state, last'))
              ELSE IF n = 4 THEN StepOutcomeIs(AsActive(DeviceCMYK, graphics_state, last'))
              ELSE StepOutcomeIs(
                      Err(OtherError("ICC profile without alternate color space"), cs))]_vars

\* C28 as amended: as claimed for an alternate that is neither ICC nor Named;
\* an alternate that is itself an ICC space fails with 'nested ICC color
\* space', whether or not it carries an alternate of its own.
C28_IccResolvesAsItsPlainAlternate ==
    [][HandledOtherIn("Icc") =>
          LET cs == SideSpace(graphics_state, last')
              n == Len(last'.color.args)
          IN  IF cs.alternate # None
              THEN /\ cs.alternate.tag \notin {"Icc", "Named"} =>
                        StepOutcomeIs(AsActive(cs.alternate, graphics_state, last'))
                   /\ cs.alternate.tag = "Icc" =>
                        StepOutcomeIs(Err(OtherError("nested ICC color space"), cs))
              ELSE IF n = 3 THEN StepOutcomeIs(AsActive(DeviceRGB, graphics_state, last'))
              ELSE IF n = 4 THEN StepOutcomeIs(AsActive(DeviceCMYK, graphics_state, last'))
              ELSE StepOutcomeIs(
                      Err(OtherError("ICC profile without alternate color space"), cs))]_vars

\* one operand in an ICC space whose alternate is a Separation over DeviceGray
\* with an identity tint: resolved as in the Separation space, to Solid(x,x,x)
C28_Witness ==
    /\ result = "running"
    /\ last = [op |-> "FillColor", color |-> Other(<<Number(One)>>)]
    /\ graphics_state.fill_color_space = ColorSpaces["CsIccSep"]
    /\ graphics_state.fill_color = Solid(One, One, One)

\* the alternate of a Separation or DeviceN space, one level of ICC unwrapped
Unwrapped(alt) == IF alt.tag = "Icc" THEN alt.alternate ELSE alt

\* the channels of a device space (0: not a device space)
DeviceChannels(cs) ==
    CASE cs.tag = "DeviceGray" -> 1
      [] cs.tag = "DeviceRGB" -> 3
      [] cs.tag = "DeviceCMYK" -> 4
      [] OTHER -> 0

\* channels o read as a color of a device space with Len(o) or fewer channels
DeviceFill(cs, o, mode) ==
    CASE cs.tag = "DeviceGray" -> Solid(o[1], o[1], o[1])
      [] cs.tag = "DeviceRGB" -> Solid(o[1], o[2], o[3])
      [] cs.tag = "DeviceCMYK" -> cmyk2rgb(o[1], o[2], o[3], o[4], mode)

\* the operands of a color operator as numbers, in order
Numbers(args) == [j \in 1..Len(args) |-> as_number(args[j])]

\* C29: numeric operands, as many as the tint function takes, in a DeviceN
\* space: the tint output of the declared output arity is read against the
\* alternate, DeviceGray as Solid(o0,o0,o0), DeviceRGB as Solid(o0,o1,o2),
\* DeviceCMYK through the CMYK conversion; with any other alternate, or with
\* an output shorter than the alternate's channels, the operator fails with
\* an error.
C29_DeviceNReadsTintOutputAgainstAlternate ==
    [][(HandledOtherIn("DeviceN")
           /\ Len(last'.color.args) = SideSpace(graphics_state, last').tint.input_dim
           /\ AllNumbers(last'.color.args)) =>
          LET cs == SideSpace(graphics_state, last')
              alt == Unwrapped(cs.alt)
              out == FunctionApply(cs.tint, Numbers(last'.color.args), cs.tint.output_dim)
          IN  IF DeviceChannels(alt) # 0 /\ Len(out) >= DeviceChannels(alt)
              THEN /\ result' = "running"
                   /\ SideColor(graphics_state', last')
                         = DeviceFill(alt, out, SideMode(graphics_state, last'))
              ELSE StepIsError]_vars

\* C30: one numeric operand x in a Separation space: an alternate that is an
\* ICC profile without alternate, or an ICC profile whose alternate is again
\* ICC, makes the operator fail with an error; with the alternate (one level
\* of ICC unwrapped) DeviceGray, DeviceRGB or DeviceCMYK and a tint function
\* of 1, 3 or 4 outputs the tint output of x is read as Solid(g,g,g),
\* Solid(r,g,b) or through the CMYK conversion; an identity tint over
\* DeviceGray gives Solid(x,x,x).
C30_SeparationReadsTintOutputAgainstAlternate ==
    [][(HandledOtherIn("Separation")
           /\ Len(last'.color.args) = 1
           /\ AllNumbers(last'.color.args)) =>
          LET cs == SideSpace(graphics_state, last')
              x == as_number(last'.color.args[1])
              alt == Unwrapped(cs.alt)
              n == DeviceChannels(alt)
          IN  /\ (cs.alt.tag = "Icc" /\ (alt = None \/ alt.tag = "Icc")) => StepIsError
              /\ (n # 0 /\ cs.f.output_dim = n) =>
                    /\ result' = "running"
                    /\ SideColor(graphics_state', last')
                          = DeviceFill(alt, FunctionApply(cs.f, <<x>>, n),
                                       SideMode(graphics_state, last'))
              /\ (cs.alt.tag = "DeviceGray" /\ cs.f = Function(1, 1)) =>
                    SideColor(graphics_state', last') = Solid(x, x, x)]_vars

(***************************************************************************)
(* Indexed spaces and the range of the channels.                           *)
(***************************************************************************)
\* byte values, and the lookup tables of two entries of three bytes
Bytes == {0, 255}
Luts == [1..6 -> Bytes]

\* the byte at offset k of a lookup table, as the channel value it is copied to
Verbatim(lut, k) == lut[k + 1] * One

\* the color of index idx of a palette with base and lookup table lut
Palette(base, lut, idx, mode) ==
    IF base.tag = "DeviceRGB"
    THEN Solid(Verbatim(lut, 3 * idx), Verbatim(lut, 3 * idx + 1), Verbatim(lut, 3 * idx + 2))
    ELSE cmyk2rgb(Verbatim(lut, 4 * idx), Verbatim(lut, 4 * idx + 1),
                  Verbatim(lut, 4 * idx + 2), Verbatim(lut, 4 * idx + 3), mode)

\* C31: an integer operand that is a valid index i of an Indexed space over
\* DeviceRGB resolves to Solid of the bytes at offsets 3i, 3i+1, 3i+2 of the
\* lookup table, each copied as it is; over DeviceCMYK to the CMYK conversion
\* of the bytes at 4i..4i+3; for every table, changing a byte at another
\* offset leaves the color of index i as it is (a statement about the
\* resolver alone, evaluated once, before the first operator).
C31_IndexedReadsItsEntry ==
    /\ [](i = 0 =>
          \A lut \in Luts, idx \in 0..1, k \in 1..6, b \in Bytes :
            LET cs == Indexed(DeviceRGB, 1, lut)
                other == Indexed(DeviceRGB, 1, [lut EXCEPT ![k] = b])
                r == ConvertIndexed(cs, <<Integer(idx)>>, "Overlay", cs)
            IN  /\ r.res = "ok"
                /\ r.fill = Palette(DeviceRGB, lut, idx, "Overlay")
                /\ k \notin {3 * idx + 1, 3 * idx + 2, 3 * idx + 3} =>
                      ConvertIndexed(other, <<Integer(idx)>>, "Overlay", cs).fill = r.fill)
    /\ [][(HandledOtherIn("Indexed")
              /\ SideSpace(graphics_state, last').base.tag \in {"DeviceRGB", "DeviceCMYK"}
              /\ Len(last'.color.args) = 1
              /\ last'.color.args[1].t = "Integer"
              /\ ~BadIndex(SideSpace(graphics_state, last'), last'.color.args[1].v)) =>
             LET cs == SideSpace(graphics_state, last')
             IN  /\ result' = "running"
                 /\ SideColor(graphics_state', last')
                       = Palette(cs.base, cs.lut, last'.color.args[1].v,
                                 SideMode(graphics_state, last'))]_vars

\* index 1 of the palette <<0, 255, 1, 7, 0, 3, 9>> over DeviceRGB: the bytes
\* 7, 0, 3 at offsets 3, 4, 5 are the channels
C31_Witness ==
    /\ result = "running"
    /\ last = [op |-> "FillColor", color |-> Other(<<Integer(1)>>)]
    /\ graphics_state.fill_color_space = ColorSpaces["CsIdxRGB"]
    /\ graphics_state.fill_color = Solid(7 * One, 0, 3 * One)

\* a channel or an operand between 0.0 and 1.0
InUnit(x) == 0 <= x /\ x <= One

\* a Solid color has its three channels between 0.0 and 1.0
Normalized(fill) ==
    fill.tag = "Solid" => (InUnit(fill.r) /\ InUnit(fill.g) /\ InUnit(fill.b))

\* the numeric operands of a color lie between 0.0 and 1.0
OperandsInUnit(color) ==
    CASE color.tag = "Gray" -> InUnit(color.g)
      [] color.tag = "Rgb" -> InUnit(color.red) /\ InUnit(color.green) /\ InUnit(color.blue)
      [] color.tag = "Cmyk" ->
            InUnit(color.cyan) /\ InUnit(color.magenta)
               /\ InUnit(color.yellow) /\ InUnit(color.key)
      [] color.tag = "Other" ->
            \A j \in 1..Len(color.args) :
               IsNumber(color.args[j]) => InUnit(as_number(color.args[j]))

\* C32: a color operator whose operands lie in [0, 1] and that is taken
\* leaves a color with channels in [0, 1] on its side, whatever the active
\* space and the bytes of its lookup table; a draw call made from normalized
\* colors carries normalized colors.
C32_SolidChannelsAreNormalized ==
    [][/\ (HandledColor /\ OperandsInUnit(last'.color) /\ i' = i + 1) =>
             Normalized(SideColor(graphics_state', last'))
       /\ (HandledDrawing /\ Normalized(graphics_state.fill_color)
                          /\ Normalized(graphics_state.stroke_color)) =>
             /\ last'.op \in {"Fill", "FillAndStroke"} =>
                   Normalized(NewCall.mode.fill.color)
             /\ last'.op \in {"Stroke", "FillAndStroke"} =>
                   Normalized(NewCall.mode.stroke.color)]_vars

(***************************************************************************)
(* Operators out of scope, the text operators, and the closed flag.        *)
(***************************************************************************)
\* C33: an operator with an empty arm (marked content, Shade, Clip, Dash,
\* LineJoin, LineCap, MiterLimit, Flatness, GraphicsState, RenderingIntent,
\* EndText, TextFont, TextDraw, TextDrawAdjusted, XObject, InlineImage) is
\* taken without error or panic, makes no draw call and leaves the graphics
\* state, the text state, the stack, the current subpath and the outline as
\* they were.
C33_SkippedOperatorsChangeNothing ==
    [][(Handled /\ last'.op \in SkippedOps) =>
          /\ result' = "running"
          /\ i' = i + 1
          /\ UNCHANGED <<graphics_state, text_state, stack, current_contour,
                         current_outline, plotter>>]_vars

\* Save, FillColor(red), LineTo, Clip: the Clip was taken and the saved
\* state, the red fill color and the pending subpath are all still there
C33_Witness ==
    /\ i = 4
    /\ result = "running"
    /\ last.op = "Clip"
    /\ Len(stack) = 1
    /\ graphics_state.fill_color = Solid(One, 0, 0)
    /\ current_contour.points = <<Endpoint(<<1, 2>>)>>
    /\ plotter = <<>>

\* a text state whose two matrices are the line matrix of t moved by v
MovedBy(t, v) ==
    [t EXCEPT !.text_matrix = Compose(t.line_matrix, Translation(v)),
              !.line_matrix = Compose(t.line_matrix, Translation(v))]

\* C34: TextNewline leaves the text state MoveTextPosition((0, -leading))
\* leaves, and MoveTextPosition(v) moves by v; the leading is 0 at the start,
\* the operand of a Leading after it, and changed by no operator but Leading
\* and Restore; TextScaling(h) stores h/100 as the horizontal scale and
\* nothing else; none of the three touches the graphics state, the path,
\* the stack or the plotter.
C34_TextNewlineMovesByLeading ==
    /\ [](i = 0 => text_state.leading = 0)
    /\ [][/\ HandledOp("TextNewline") =>
                 text_state' = MovedBy(text_state, <<0, 0 - text_state.leading>>)
          /\ HandledOp("MoveTextPosition") =>
                 text_state' = MovedBy(text_state, last'.translation)
          /\ HandledOp("Leading") =>
                 text_state' = [text_state EXCEPT !.leading = last'.leading]
          /\ (Handled /\ last'.op \notin {"Leading", "Restore"}) =>
                 text_state'.leading = text_state.leading
          /\ HandledOp("TextScaling") =>
                 /\ text_state'.horiz_scale * 100 = last'.horiz_scale * One
                 /\ text_state' = [text_state EXCEPT !.horiz_scale = text_state'.horiz_scale]
          /\ (Handled /\ last'.op \in {"TextNewline", "TextScaling", "Leading"}) =>
                 /\ result' = "running"
                 /\ UNCHANGED <<graphics_state, current_contour, current_outline,
                                stack, plotter>>]_vars

\* SetTextMatrix(scale by 2), Leading(3), TextNewline: both matrices are the
\* scaling moved by (0, -3), which is a move by (0, -6) on the page
C34_Witness ==
    /\ i = 3
    /\ last.op = "TextNewline"
    /\ before[2].leading = 3
    /\ before[2].line_matrix = <<2, 0, 0, 2, 0, 0>>
    /\ text_state.text_matrix = <<2, 0, 0, 2, 0, 0 - 6>>
    /\ text_state.line_matrix = <<2, 0, 0, 2, 0, 0 - 6>>

\* C35: a subpath of the outline a drawing operator hands over is flagged
\* closed only if a Close was handled while that subpath was the current one
\* and had a point (rectangles are closed by construction); a Close handled
\* while the current subpath is empty marks no subpath started later.
C35_ClosedOnlyByACloseOfThatSubpath ==
    [][HandledDrawing =>
          LET want == Subpaths(path_ops, <<>>, EmptyContour, TRUE)
          IN  /\ Len(NewCall.outline) = Len(want)
              /\ \A k \in 1..Len(want) :
                    NewCall.outline[k].closed => want[k].closed]_vars

\* every subpath of outline o has at least one point
NoEmptySubpath(o) == \A k \in 1..Len(o) : o[k].points # <<>>

\* C36: in every state the outline under construction and the outline of
\* every draw call made hold no subpath without points.
C36_NoEmptySubpathInOutline ==
    /\ NoEmptySubpath(current_outline)
    /\ \A c \in 1..Len(plotter) : NoEmptySubpath(plotter[c].outline)

\* a draw call with two subpaths after a Close on an empty subpath: the
\* subpath of the MoveTo and the rectangle, both with points
C36_Witness ==
    /\ i = 4
    /\ last.op \in DrawingOps
    /\ Len(plotter) = 1
    /\ Len(plotter[1].outline) = 2
    /\ plotter[1].outline[1].closed
    /\ Len(plotter[1].outline[1].points) = 1
    /\ plotter[1].outline[2] = ContourFromRect(TheRect)

(***************************************************************************)
(* Named spaces, failed resolutions, the path across Save and Restore,     *)
(* and the fields render never assigns.                                    *)
(***************************************************************************)
\* C37: Other operands in a Named space whose name is in the table end as
\* they do with the space stored under that name as the active space (the
\* same color, the same error), whatever kind the stored space is; with a
\* name that is not in the table the operator fails with an error.
C37_NamedResolvesAsTheSpaceItNames ==
    [][HandledOtherIn("Named") =>
          LET cs == SideSpace(graphics_state, last')
          IN  IF cs.name \in DOMAIN ColorSpaces
              THEN StepOutcomeIs(AsActive(ColorSpaces[cs.name], graphics_state, last'))
              ELSE StepIsError]_vars

\* graphics state g with the color of the side of op made black, as its
\* setter does it: the paint handle of that side is dropped if the color changed
WithSideBlack(g, op) ==
    IF op.op = "FillColor"
    THEN [g EXCEPT !.fill_color = Black,
                   !.fill_paint = IF g.fill_color # Black THEN None ELSE @]
    ELSE [g EXCEPT !.stroke_color = Black,
                   !.stroke_paint = IF g.stroke_color # Black THEN None ELSE @]

\* C38: a FillColor/StrokeColor whose operands fail to resolve leaves the
\* active space of its side and everything of the other side as they were;
\* in strict mode render returns the error with the whole graphics state
\* unchanged, in lenient mode the operator is taken and the graphics state
\* differs by the color of that side, now black, and by its paint handle if
\* the color changed.
C38_FailedResolutionKeepsTheSpace ==
    [][(HandledColor /\ Resolution(graphics_state, last').res = "err") =>
          /\ SideSpace(graphics_state', last') = SideSpace(graphics_state, last')
          /\ OtherSideSpace(graphics_state', last') = OtherSideSpace(graphics_state, last')
          /\ IF allow_error_in_option
             THEN /\ result' = "running"
                  /\ i' = i + 1
                  /\ graphics_state' = WithSideBlack(graphics_state, last')
             ELSE /\ result' = "err"
                  /\ graphics_state' = graphics_state]_vars

\* lenient mode, an ICC space over DeviceGray, a white fill color, then a
\* FillColor without operands: the color is black, the space still the ICC one
C38_Witness ==
    /\ allow_error_in_option
    /\ result = "running"
    /\ last = [op |-> "FillColor", color |-> Other(<<>>)]
    /\ before[1].fill_color = Solid(One, One, One)
    /\ before[1].fill_color_space = ColorSpaces["CsIccGray"]
    /\ graphics_state.fill_color = Black
    /\ graphics_state.fill_color_space = ColorSpaces["CsIccGray"]

\* C39: Save and Restore, failing or not, leave the current subpath and the
\* outline as they are; Save makes the stack one deeper and a Restore that
\* succeeds one shallower; the outline a drawing operator hands over holds
\* the subpaths of all path operators since the last drawing operator or
\* EndPath, whatever Save and Restore were handled among them.
C39_PathIsNotSaved ==
    [][/\ HandledOp("Save") =>
             /\ UNCHANGED <<current_contour, current_outline>>
             /\ Len(stack') = Len(stack) + 1
       /\ HandledOp("Restore") =>
             /\ UNCHANGED <<current_contour, current_outline>>
             /\ result' = "running" => Len(stack') = Len(stack) - 1
             /\ result' # "running" => stack' = stack
       /\ (Handled /\ last'.op \notin {"Save", "Restore"}) => stack' = stack
       /\ HandledDrawing =>
             HoldsSubpaths(NewCall.outline,
                           Subpaths(path_ops, <<>>, EmptyContour, TRUE))]_vars

\* a Restore was taken as the third operator with a subpath of one point
\* pending and nothing in the outline: the subpath outlived the Restore
C39_Witness ==
    /\ i = 3
    /\ result = "running"
    /\ last.op = "Restore"
    /\ stack = <<>>
    /\ Len(current_contour.points) = 1
    /\ current_outline = <<>>

\* a side of a draw call as render leaves it: alpha 1.0, blend mode Overlay
PlainSide(side) == side.alpha = One /\ side.mode = "Overlay"

\* a draw call with plain sides, no dash pattern and no clip reference
PlainCall(call) ==
    /\ call.clip = None
    /\ call.mode.kind \in {"Fill", "FillAndStroke"} => PlainSide(call.mode.fill)
    /\ call.mode.kind \in {"Stroke", "FillAndStroke"} =>
          /\ PlainSide(call.mode.stroke)
          /\ call.mode.stroke_mode.dash_pattern = None

\* C40: in every state the alphas of the graphics state are 1.0, the
\* overprint flags unset, the dash pattern, the clip reference and both
\* paint handles None, and every draw call made carries alpha 1.0 and blend
\* mode Overlay on each side it has, no dash pattern and no clip reference.
C40_UnassignedFieldsKeepTheirDefaults ==
    /\ graphics_state.fill_alpha = One
    /\ graphics_state.stroke_alpha = One
    /\ graphics_state.fill_color_alpha = One
    /\ graphics_state.stroke_color_alpha = One
    /\ ~graphics_state.overprint_fill
    /\ ~graphics_state.overprint_stroke
    /\ graphics_state.dash_pattern = None
    /\ graphics_state.clip_path_id = None
    /\ graphics_state.fill_paint = None
    /\ graphics_state.stroke_paint = None
    /\ \A c \in 1..Len(plotter) : PlainCall(plotter[c])

\* a FillAndStroke was handled as the fourth operator after a FillColor: its
\* call has the red fill color and is plain on both sides
C40_Witness ==
    /\ i = 4
    /\ last.op = "FillAndStroke"
    /\ Len(plotter) = 1
    /\ plotter[1].mode.fill.color = Solid(One, 0, 0)
    /\ PlainCall(plotter[1])

====
